---- MODULE Spec2Model ----
(***************************************************************************)
(* ShardMap of the Kinesis producer core (aws/kinesis/core/shard_map.cc):  *)
(* the lookup index, the refresh engine with its backoff, the range        *)
(* reconciler build_minimal_disjoint_hashranges and the shard cache with   *)
(* its cleanup thread.                                                     *)
(*                                                                         *)
(* Hash keys are uint128_t in the program; the model keeps the unsigned    *)
(* wrap-around arithmetic at a width of HashBits bits, so MaxHash plays    *)
(* the part of std::numeric_limits<uint128_t>::max().  Time is the steady  *)
(* clock in milliseconds, advancing in steps of the cleanup period.        *)
(***************************************************************************)
EXTENDS Integers, Sequences, FiniteSets, TLC

\* ------------------------------------------------------------------ bounds

\* width of a hash key in the model (128 in the program)
HashBits == 7
\* the reconciler is explored on every shard list of at most MaxShards shards
MaxShards == 3
\* low hash keys 0..RecMax (and the two highest keys) are the range endpoints
\* of the exhaustive reconciler exploration
RecMax == 1
\* the clock stops after MaxTicks cleanup periods
MaxTicks == 3
\* Spec explores at most MaxFails failed page requests in a row
MaxFails == 3
\* the clock of the cleanup thread's explorations stops after JanTicks
\* cleanup periods
JanTicks == 6
\* width of a shard id in the model (uint64_t, 64 in the program)
IdBits == 7

\* ------------------------------------------------------- program constants

kMinBackoff == 1000
kMaxBackoff == 30000
kClosedShardTtl == 60000

min_backoff_ == kMinBackoff
max_backoff_ == kMaxBackoff
closed_shard_ttl_ == kClosedShardTtl

RECURSIVE Pow2(_)
Pow2(n) == IF n = 0 THEN 1 ELSE 2 * Pow2(n - 1)

\* uint128_t arithmetic wraps modulo 2^width
HashMod == Pow2(HashBits)
\* std::numeric_limits<uint128_t>::max()
MaxHash == HashMod - 1

\* boost::optional
None == <<>>
Some(x) == <<x>>

\* the cleanup thread's period, closed_shard_ttl_ / 2
CleanupPeriod == closed_shard_ttl_ \div 2

\* ------------------------------------------------ the range reconciler

\* a shard descriptor as the reconciler reads it (Aws::Kinesis::Model::Shard:
\* shard id and hash key range), which is also the heap's ShardRange
Shard(i, s, e) == [id |-> i, start |-> s, end |-> e]

\* MaxHeapComparator: a orders below b when it ends lower, or ends equal and
\* starts lower, so the top of the heap has the highest end, then the highest
\* start
MaxHeapComparator(a, b) ==
    \/ a.end < b.end
    \/ (a.end = b.end /\ a.start < b.start)

\* std::__push_heap: move value up from the hole while its parent orders
\* below it (positions are 0-based as in the library, sequences 1-based)
RECURSIVE push_heap_at(_, _, _, _)
push_heap_at(h, hole, top, value) ==
    LET parent == (hole - 1) \div 2 IN
    IF hole > top /\ MaxHeapComparator(h[parent + 1], value)
    THEN push_heap_at([h EXCEPT ![hole + 1] = h[parent + 1]], parent, top, value)
    ELSE [h EXCEPT ![hole + 1] = value]

\* max_heap.push(x): push_back, then std::push_heap
heap_push(h, x) == push_heap_at(Append(h, x), Len(h), 0, x)

\* std::__adjust_heap, the descent: the hole follows the higher child down to
\* the bottom; the result is the heap and the final hole
RECURSIVE adjust_down(_, _, _)
adjust_down(h, second, len) ==
    IF second < (len - 1) \div 2
    THEN LET c0 == 2 * (second + 1)
             c  == IF MaxHeapComparator(h[c0 + 1], h[c0]) THEN c0 - 1 ELSE c0
         IN  adjust_down([h EXCEPT ![second + 1] = h[c + 1]], c, len)
    ELSE IF len % 2 = 0 /\ second = (len - 2) \div 2
         THEN LET c == 2 * (second + 1) - 1
              IN  [heap |-> [h EXCEPT ![second + 1] = h[c + 1]], hole |-> c]
         ELSE [heap |-> h, hole |-> second]

\* max_heap.pop(): std::pop_heap moves the last element into the hole left
\* by the top, then pop_back
heap_pop(h) ==
    IF Len(h) <= 1 THEN <<>>
    ELSE LET len   == Len(h) - 1
             value == h[Len(h)]
             d     == adjust_down(SubSeq(h, 1, len), 0, len)
         IN  push_heap_at(d.heap, d.hole, 0, value)

\* the heap after the loop that pushes every shard of open_shards_
RECURSIVE heap_of(_, _)
heap_of(shards, h) ==
    IF shards = <<>> THEN h
    ELSE heap_of(Tail(shards), heap_push(h, Head(shards)))

\* reconcile_loop gone wrong: the watermark is moved to the emitted shard's
\* end, not its start
RECURSIVE reconcile_loop_end_watermark(_, _, _)
reconcile_loop_end_watermark(max_heap, last_starting_hashkey, index) ==
    IF max_heap = <<>> THEN index
    ELSE LET shard == max_heap[1]
             rest  == heap_pop(max_heap)
         IN  IF shard.end < last_starting_hashkey
             THEN reconcile_loop_end_watermark(rest, shard.end,
                      Append(index, [first |-> shard.end, second |-> shard.id]))
             ELSE IF shard.start < last_starting_hashkey
                  THEN reconcile_loop_end_watermark(
                           heap_push(rest, [shard EXCEPT
                               !.end = (last_starting_hashkey - 1 + HashMod) % HashMod]),
                           last_starting_hashkey, index)
                  ELSE reconcile_loop_end_watermark(rest, last_starting_hashkey, index)

\* reconcile_loop gone wrong: a shard that ends on the watermark is emitted
\* (<= for <)
RECURSIVE reconcile_loop_le(_, _, _)
reconcile_loop_le(max_heap, last_starting_hashkey, index) ==
    IF max_heap = <<>> THEN index
    ELSE LET shard == max_heap[1]
             rest  == heap_pop(max_heap)
         IN  IF shard.end <= last_starting_hashkey
             THEN reconcile_loop_le(rest, shard.start,
                      Append(index, [first |-> shard.end, second |-> shard.id]))
             ELSE IF shard.start < last_starting_hashkey
                  THEN reconcile_loop_le(
                           heap_push(rest, [shard EXCEPT
                               !.end = (last_starting_hashkey - 1 + HashMod) % HashMod]),
                           last_starting_hashkey, index)
                  ELSE reconcile_loop_le(rest, last_starting_hashkey, index)

\* the while loop of build_minimal_disjoint_hashranges: index is the vector
\* end_hash_key_to_shard_id_ of (end hash key, shard id) pairs
RECURSIVE reconcile_loop(_, _, _)
reconcile_loop(max_heap, last_starting_hashkey, index) ==
    IF max_heap = <<>> THEN index
    ELSE LET shard == max_heap[1]
             rest  == heap_pop(max_heap)
         IN  IF shard.end < last_starting_hashkey
             THEN reconcile_loop(rest, shard.start,
                      Append(index, [first |-> shard.end, second |-> shard.id]))
             ELSE IF shard.start < last_starting_hashkey
                  THEN reconcile_loop(
                           heap_push(rest, [shard EXCEPT
                               !.end = (last_starting_hashkey - 1 + HashMod) % HashMod]),
                           last_starting_hashkey, index)
                  ELSE reconcile_loop(rest, last_starting_hashkey, index)

\* std::reverse
Reverse(s) == [i \in 1..Len(s) |-> s[Len(s) + 1 - i]]

\* the watermark's initial value
InitialWatermark == MaxHash

\* the index build_minimal_disjoint_hashranges leaves in
\* end_hash_key_to_shard_id_ (index is its content on entry)
build_index(shards, index) ==
    IF shards = <<>> THEN index
    ELSE Reverse(reconcile_loop(heap_of(shards, <<>>), InitialWatermark, index))

\* ------------------------------------------------------------ the lookup

\* lower_bound gone wrong: pair.first <= key, the first entry above the key
RECURSIVE lower_bound_le(_, _, _, _)
lower_bound_le(v, first, len, key) ==
    IF len > 0
    THEN LET half == len \div 2
             mid  == first + half
         IN  IF v[mid + 1].first <= key
             THEN lower_bound_le(v, mid + 1, len - half - 1, key)
             ELSE lower_bound_le(v, first, half, key)
    ELSE first

\* std::lower_bound with pair.first < key: the 0-based position of the first
\* entry whose end hash key is not below key, Len(v) when there is none
RECURSIVE lower_bound(_, _, _, _)
lower_bound(v, first, len, key) ==
    IF len > 0
    THEN LET half == len \div 2
             mid  == first + half
         IN  IF v[mid + 1].first < key
             THEN lower_bound(v, mid + 1, len - half - 1, key)
             ELSE lower_bound(v, first, half, key)
    ELSE first

\* shard_id gone wrong: a key above every entry is given the last entry
shard_id_last_entry(hash_key, locked, state, index) ==
    IF locked /\ state = "READY"
    THEN LET it == lower_bound(index, 0, Len(index), hash_key)
         IN  IF it # Len(index) THEN Some(index[it + 1].second)
             ELSE IF index # <<>> THEN Some(index[Len(index)].second)
             ELSE None
    ELSE None

\* shard_id gone wrong: the state is not tested
shard_id_any_state(hash_key, locked, state, index) ==
    IF locked
    THEN LET it == lower_bound(index, 0, Len(index), hash_key)
         IN  IF it # Len(index) THEN Some(index[it + 1].second) ELSE None
    ELSE None

\* shard_id gone wrong: the outcome of try_lock is not tested
shard_id_no_try_lock(hash_key, locked, state, index) ==
    IF state = "READY"
    THEN LET it == lower_bound(index, 0, Len(index), hash_key)
         IN  IF it # Len(index) THEN Some(index[it + 1].second) ELSE None
    ELSE None

\* what shard_id returns for hash_key when try_lock succeeded or not
shard_id(hash_key, locked, state, index) ==
    IF locked /\ state = "READY"
    THEN LET it == lower_bound(index, 0, Len(index), hash_key)
         IN  IF it # Len(index) THEN Some(index[it + 1].second) ELSE None
    ELSE None

\* what get_shard returns: the cache's entry for the id, if any
get_shard(id, cache) ==
    IF id \in DOMAIN cache THEN Some(cache[id]) ELSE None

\* ------------------------------------------------------ shard id strings

\* a std::string is the sequence of its characters
Digits == <<"0", "1", "2", "3", "4", "5", "6", "7", "8", "9">>
IsDigit(c) == \E d \in 1..10 : Digits[d] = c
DigitVal(c) == (CHOOSE d \in 1..10 : Digits[d] = c) - 1

\* "shardId" as a string
ShardIdText == <<"s", "h", "a", "r", "d", "I", "d">>

\* uint64_t arithmetic wraps modulo 2^width; ULLONG_MAX
IdMod == Pow2(IdBits)
IdMax == IdMod - 1

\* the outcome of a call that throws
Thrown == [ok |-> FALSE, value |-> 0]
Returned(v) == [ok |-> TRUE, value |-> v]

\* aws::utils::split_on_first(s, "-"): the text before the first "-" and the
\* text after it, or s alone when it holds no "-"
split_on_first(s, sep) ==
    LET hits == {i \in 1..Len(s) : s[i] = sep}
    IN  IF hits = {} THEN <<s>>
        ELSE LET i == CHOOSE x \in hits : \A y \in hits : x <= y
             IN  <<SubSeq(s, 1, i - 1), SubSeq(s, i + 1, Len(s))>>

\* the value of the longest prefix of digits of s, with the number of digits
\* read; a value above ULLONG_MAX is kept as ULLONG_MAX + 1
RECURSIVE read_digits(_, _, _)
read_digits(s, acc, n) ==
    IF s # <<>> /\ IsDigit(Head(s))
    THEN LET v == acc * 10 + DigitVal(Head(s))
         IN  read_digits(Tail(s), IF v > IdMax THEN IdMax + 1 ELSE v, n + 1)
    ELSE [value |-> acc, digits |-> n]

\* leading white space is skipped
RECURSIVE skip_space(_)
skip_space(s) ==
    IF s # <<>> /\ Head(s) = " " THEN skip_space(Tail(s)) ELSE s

\* std::stoull(s): white space, an optional sign, then digits up to the
\* first character that is none; std::invalid_argument without a digit,
\* std::out_of_range above ULLONG_MAX; a minus sign negates modulo 2^width
stoull(s) ==
    LET t    == skip_space(s)
        sign == IF t # <<>> /\ Head(t) \in {"+", "-"} THEN Head(t) ELSE ""
        d    == read_digits(IF sign = "" THEN t ELSE Tail(t), 0, 0)
    IN  IF d.digits = 0 \/ d.value > IdMax THEN Thrown
        ELSE IF sign = "-" THEN Returned((IdMod - d.value) % IdMod)
        ELSE Returned(d.value)

\* shard_id_from_str: std::stoull(parts.at(1)); at(1) throws
\* std::out_of_range when the string holds no "-"
shard_id_from_str(str) ==
    LET parts == split_on_first(str, "-")
    IN  IF Len(parts) < 2 THEN Thrown ELSE stoull(parts[2])

\* 10^n
RECURSIVE Pow10(_)
Pow10(n) == IF n = 0 THEN 1 ELSE 10 * Pow10(n - 1)

\* the number of digits shard_id_to_str pads to: 12 in the program, where
\* 10^12 is below 2^64; at the model's width of a shard id, the most digits
\* whose every number fits a shard id
RECURSIVE pad_digits(_)
pad_digits(n) == IF Pow10(n + 1) <= IdMod THEN pad_digits(n + 1) ELSE n
PadDigits == pad_digits(0)

\* std::to_string(id): the decimal digits of id, no leading zero
RECURSIVE to_string(_)
to_string(id) ==
    IF id < 10 THEN <<Digits[id + 1]>>
    ELSE to_string(id \div 10) \o <<Digits[(id % 10) + 1]>>

\* std::string(n, '0')
zeros(n) == [i \in 1..n |-> "0"]

\* shard_id_to_str gone wrong: no padding
shard_id_to_str_unpadded(id) ==
    Returned(ShardIdText \o <<"-">> \o to_string(id))

\* shard_id_to_str: "shardId-", the padding and the digits; with more digits
\* than the pad's width, 12 - i.length() wraps around as a size_t and
\* std::string(n, '0') throws std::length_error
shard_id_to_str(id) ==
    LET i == to_string(id)
    IN  IF Len(i) > PadDigits THEN Thrown
        ELSE Returned(ShardIdText \o <<"-">> \o zeros(PadDigits - Len(i)) \o i)

\* a shard descriptor as the service sends it: the shard id is a string
RawShard(str, s, e) == [id |-> str, start |-> s, end |-> e]

\* open_shards_ keeps a shard under the number its id string parses to;
\* NoId stands for the id string of a shard that does not parse
NoId == 0 - 1

\* the loop over a page's shards in list_shards_callback: each is pushed onto
\* open_shards_, then its id is parsed for open_shard_ids_; the loop ends
\* where a parse throws, with the shard already pushed
RECURSIVE parse_page(_, _)
parse_page(raw, acc) ==
    IF raw = <<>> THEN acc
    ELSE LET r == shard_id_from_str(Head(raw).id)
         IN  IF r.ok
             THEN parse_page(Tail(raw),
                      [acc EXCEPT !.shards = Append(@, [Head(raw) EXCEPT !.id = r.value]),
                                  !.ids = @ \cup {r.value}])
             ELSE [acc EXCEPT !.shards = Append(@, [Head(raw) EXCEPT !.id = NoId]),
                              !.thrown = TRUE]

\* parse_page from the start of a page
NoPage == [shards |-> <<>>, ids |-> {}, thrown |-> FALSE]

\* ------------------------------------------------------------ the state

VARIABLES
    state_,                      \* INVALID, UPDATING or READY
    end_hash_key_to_shard_id_,   \* the lookup index
    open_shards_,                \* the shards of the pages received so far
    open_shard_ids_,             \* their ids
    shard_id_to_shard_cache_,    \* shard id -> shard descriptor
    shard_cache_needs_cleanup_,
    updated_at_,
    backoff_,
    scheduled_callback_,         \* the handle of the scheduled retry
    mutex_,                      \* [writer, readers] of the index lock
    shard_cache_mutex_,          \* the holder of the cache lock
    requests,                    \* ListShards requests in flight
    tasks,                       \* retries pending in the executor
    now,                         \* the steady clock
    cb_pc,                       \* where the completion context stands
    inv_pc,                      \* where the caller of invalidate stands
    jan_pc,                      \* where the cleanup thread stands
    jan_now,                     \* the cleanup thread's local now
    jan_wake,                    \* when its sleep_for ends
    ret                          \* the last call returned to a caller: its
                                 \* value, and whether it got its lock

vars == <<state_, end_hash_key_to_shard_id_, open_shards_, open_shard_ids_,
          shard_id_to_shard_cache_, shard_cache_needs_cleanup_, updated_at_,
          backoff_, scheduled_callback_, mutex_, shard_cache_mutex_, requests,
          tasks, now, cb_pc, inv_pc, jan_pc, jan_now, jan_wake, ret>>

refresh_vars == <<state_, end_hash_key_to_shard_id_, open_shards_,
                  open_shard_ids_, scheduled_callback_, requests, tasks>>
cache_vars == <<shard_id_to_shard_cache_, shard_cache_needs_cleanup_>>
janitor_vars == <<jan_pc, jan_now, jan_wake>>

\* ------------------------------------------------------------ the executor

\* a null scheduled_callback_
NoCallback == [created |-> FALSE, pending |-> FALSE, delay |-> 0]

\* executor_->schedule(f, delay): a new pending task and its handle
schedule(delay, t) ==
    [cb |-> [created |-> TRUE, pending |-> TRUE, delay |-> delay], tasks |-> t + 1]

\* scheduled_callback_->reschedule(delay): the handle's task is pending
\* again, with the new delay
reschedule(cb, delay, t) ==
    [cb |-> [cb EXCEPT !.pending = TRUE, !.delay = delay],
     tasks |-> IF cb.pending THEN t ELSE t + 1]

\* scheduled_callback_->cancel(): the handle's task will not run
cancel(cb, t) ==
    [cb |-> [cb EXCEPT !.pending = FALSE],
     tasks |-> IF cb.pending THEN t - 1 ELSE t]

\* ------------------------------------------------------ the refresh engine

\* the fields update() and update_fail() work on
Refresh == [state |-> state_, index |-> end_hash_key_to_shard_id_,
            open_shards |-> open_shards_, open_shard_ids |-> open_shard_ids_,
            cb |-> scheduled_callback_, tasks |-> tasks, requests |-> requests]

\* clear_all_stored_shards gone wrong: only the index is cleared
clear_all_stored_shards_keeps_shards(r) ==
    [r EXCEPT !.index = <<>>]

\* clear_all_stored_shards gone wrong: the index is not cleared
clear_all_stored_shards_keeps_index(r) ==
    [r EXCEPT !.open_shards = <<>>, !.open_shard_ids = {}]

\* clear_all_stored_shards()
clear_all_stored_shards(r) ==
    [r EXCEPT !.index = <<>>, !.open_shards = <<>>, !.open_shard_ids = {}]

\* list_shards(): one more request in flight
list_shards(r) == [r EXCEPT !.requests = @ + 1]

\* update() gone wrong: no test of the state
update_unguarded(r) ==
    LET c == clear_all_stored_shards([r EXCEPT !.state = "UPDATING"])
        k == IF c.cb.created THEN cancel(c.cb, c.tasks)
             ELSE [cb |-> c.cb, tasks |-> c.tasks]
    IN  list_shards([c EXCEPT !.cb = k.cb, !.tasks = k.tasks])

\* update(): nothing while UPDATING; otherwise UPDATING, the stored shards
\* cleared, the scheduled retry cancelled and the first page requested
update(r) ==
    IF r.state = "UPDATING" THEN r
    ELSE LET c == clear_all_stored_shards([r EXCEPT !.state = "UPDATING"])
             k == IF c.cb.created THEN cancel(c.cb, c.tasks)
                  ELSE [cb |-> c.cb, tasks |-> c.tasks]
         IN  list_shards([c EXCEPT !.cb = k.cb, !.tasks = k.tasks])

\* next_backoff gone wrong: no cap at max_backoff_
next_backoff_uncapped(backoff) == (backoff * 3) \div 2

\* the next backoff: std::min(backoff_ * 3 / 2, max_backoff_)
next_backoff(backoff) ==
    LET b == (backoff * 3) \div 2 IN IF b < max_backoff_ THEN b ELSE max_backoff_

\* update_fail gone wrong: the retry is scheduled but the state is left as
\* it is
update_fail_keeps_state(r, backoff) ==
    LET k == IF ~r.cb.created THEN schedule(backoff, r.tasks)
             ELSE reschedule(r.cb, backoff, r.tasks)
    IN  [r EXCEPT !.cb = k.cb, !.tasks = k.tasks]

\* update_fail gone wrong: a new retry is scheduled whether or not a handle
\* exists
update_fail_always_schedules(r, backoff) ==
    LET k == schedule(backoff, r.tasks)
    IN  [r EXCEPT !.state = "INVALID", !.cb = k.cb, !.tasks = k.tasks]

\* update_fail() under the write lock: INVALID, and the retry scheduled (or
\* the existing handle rescheduled) at the current backoff
update_fail(r, backoff) ==
    LET k == IF ~r.cb.created THEN schedule(backoff, r.tasks)
             ELSE reschedule(r.cb, backoff, r.tasks)
    IN  [r EXCEPT !.state = "INVALID", !.cb = k.cb, !.tasks = k.tasks]

\* the assignments of a Refresh record to the variables
SetRefresh(r) ==
    /\ state_' = r.state
    /\ end_hash_key_to_shard_id_' = r.index
    /\ open_shards_' = r.open_shards
    /\ open_shard_ids_' = r.open_shard_ids
    /\ scheduled_callback_' = r.cb
    /\ tasks' = r.tasks
    /\ requests' = r.requests

\* ------------------------------------------------------------ the locks

Unlocked == [writer |-> "none", readers |-> {}]
\* a WriteLock can be taken
CanWrite(m) == m.writer = "none" /\ m.readers = {}
\* a ReadLock can be taken
CanRead(m) == m.writer = "none"

\* ------------------------------------------------------------ Init

\* the state the constructor leaves: update() has run from INVALID and the
\* cleanup thread has started its first sleep
Init ==
    /\ state_ = "UPDATING"
    /\ end_hash_key_to_shard_id_ = <<>>
    /\ open_shards_ = <<>>
    /\ open_shard_ids_ = {}
    /\ shard_id_to_shard_cache_ = <<>>
    /\ shard_cache_needs_cleanup_ = FALSE
    /\ updated_at_ = 0
    /\ backoff_ = min_backoff_
    /\ scheduled_callback_ = NoCallback
    /\ mutex_ = Unlocked
    /\ shard_cache_mutex_ = "none"
    /\ requests = 1
    /\ tasks = 0
    /\ now = 0
    /\ cb_pc = "idle"
    /\ inv_pc = "idle"
    /\ jan_pc = "sleep"
    /\ jan_now = 0
    /\ jan_wake = CleanupPeriod
    /\ ret = [op |-> "none", arg |-> None, locked |-> TRUE, val |-> None]

\* ------------------------------------------------------------ the clock

\* time passes: the steady clock advances by one cleanup period, up to
\* limit periods
TickTo(limit) ==
    /\ now < limit * CleanupPeriod
    /\ now' = now + CleanupPeriod
    /\ UNCHANGED <<refresh_vars, cache_vars, janitor_vars, updated_at_, backoff_,
                   mutex_, shard_cache_mutex_, cb_pc, inv_pc, ret>>

Tick == TickTo(MaxTicks)

\* ------------------------------------------------------------ the callers

\* shard_id(hash_key): try_lock of the read lock fails while a writer holds
\* the index lock; the lock is released on return
ShardIdCall(hash_key) ==
    /\ ret' = [op |-> "shard_id", arg |-> Some(hash_key),
               locked |-> CanRead(mutex_),
               val |-> shard_id(hash_key, CanRead(mutex_), state_,
                                end_hash_key_to_shard_id_)]
    /\ UNCHANGED <<refresh_vars, cache_vars, janitor_vars, updated_at_, backoff_,
                   mutex_, shard_cache_mutex_, cb_pc, inv_pc, now>>

\* get_shard(id): waits for the cache's read lock, released on return
GetShardCall(id) ==
    /\ shard_cache_mutex_ = "none"
    /\ ret' = [op |-> "get_shard", arg |-> Some(id), locked |-> TRUE,
               val |-> get_shard(id, shard_id_to_shard_cache_)]
    /\ UNCHANGED <<refresh_vars, cache_vars, janitor_vars, updated_at_, backoff_,
                   mutex_, shard_cache_mutex_, cb_pc, inv_pc, now>>

\* invalidate(): WriteLock lock(mutex_)
InvalidateLock ==
    /\ inv_pc = "idle"
    /\ CanWrite(mutex_)
    /\ mutex_' = [mutex_ EXCEPT !.writer = "inv"]
    /\ inv_pc' = "locked"
    /\ UNCHANGED <<refresh_vars, cache_vars, janitor_vars, updated_at_, backoff_,
                   shard_cache_mutex_, cb_pc, now, ret>>

\* invalidate gone wrong: seen_at >= updated_at_
invalidate_updates_ge(seen_at, predicted_shard, state, updated_at, open_ids) ==
    /\ seen_at >= updated_at
    /\ state = "READY"
    /\ (predicted_shard = None \/ predicted_shard[1] \in open_ids)

\* invalidate gone wrong: an absent predicted_shard does not pass
invalidate_updates_predicted_only(seen_at, predicted_shard, state, updated_at, open_ids) ==
    /\ seen_at > updated_at
    /\ state = "READY"
    /\ predicted_shard # None
    /\ predicted_shard[1] \in open_ids

\* whether invalidate(seen_at, predicted_shard) decides to update
invalidate_updates(seen_at, predicted_shard, state, updated_at, open_ids) ==
    /\ seen_at > updated_at
    /\ state = "READY"
    /\ (predicted_shard = None \/ predicted_shard[1] \in open_ids)

\* invalidate(seen_at, predicted_shard) under the write lock, which is
\* released on return
InvalidateBody(seen_at, predicted_shard) ==
    /\ inv_pc = "locked"
    /\ IF invalidate_updates(seen_at, predicted_shard, state_, updated_at_,
                             open_shard_ids_)
       THEN SetRefresh(update(Refresh))
       ELSE UNCHANGED refresh_vars
    /\ mutex_' = [mutex_ EXCEPT !.writer = "none"]
    /\ inv_pc' = "idle"
    /\ ret' = [op |-> "invalidate", arg |-> None, locked |-> TRUE, val |-> None]
    /\ UNCHANGED <<cache_vars, janitor_vars, updated_at_, backoff_,
                   shard_cache_mutex_, cb_pc, now>>

\* ------------------------------------------------------------ the executor

\* the scheduled retry fires: the executor runs update()
RetryFires ==
    /\ scheduled_callback_.pending
    /\ tasks > 0
    /\ SetRefresh(update([Refresh EXCEPT
           !.cb = [scheduled_callback_ EXCEPT !.pending = FALSE],
           !.tasks = tasks - 1]))
    /\ UNCHANGED <<cache_vars, janitor_vars, updated_at_, backoff_, mutex_,
                   shard_cache_mutex_, cb_pc, inv_pc, now, ret>>

\* ------------------------------------------------- the completion context

\* list_shards_callback with a failed outcome: update_fail waits for the
\* write lock
ListShardsFailed ==
    /\ cb_pc = "idle"
    /\ requests > 0
    /\ requests' = requests - 1
    /\ cb_pc' = "fail_wait"
    /\ UNCHANGED <<state_, end_hash_key_to_shard_id_, open_shards_,
                   open_shard_ids_, scheduled_callback_, tasks, cache_vars,
                   janitor_vars, updated_at_, backoff_, mutex_,
                   shard_cache_mutex_, inv_pc, now, ret>>

\* update_fail: WriteLock lock(mutex_)
UpdateFailLock ==
    /\ cb_pc = "fail_wait"
    /\ CanWrite(mutex_)
    /\ mutex_' = [mutex_ EXCEPT !.writer = "cb"]
    /\ cb_pc' = "fail"
    /\ UNCHANGED <<refresh_vars, cache_vars, janitor_vars, updated_at_, backoff_,
                   shard_cache_mutex_, inv_pc, now, ret>>

\* update_fail under the lock, which is released on return
UpdateFail ==
    /\ cb_pc = "fail"
    /\ SetRefresh(update_fail(Refresh, backoff_))
    /\ backoff_' = next_backoff(backoff_)
    /\ mutex_' = [mutex_ EXCEPT !.writer = "none"]
    /\ cb_pc' = "idle"
    /\ UNCHANGED <<cache_vars, janitor_vars, updated_at_, shard_cache_mutex_,
                   inv_pc, now, ret>>

\* the backoff after n failed page requests in a row
RECURSIVE backoff_after(_)
backoff_after(n) ==
    IF n = 0 THEN min_backoff_ ELSE next_backoff(backoff_after(n - 1))

\* fewer than n page requests have failed in a row
FailuresBelow(n) == \E i \in 0..(n - 1) : backoff_ = backoff_after(i)

\* the ids of a page's shards
RECURSIVE ids_of(_)
ids_of(shards) ==
    IF shards = <<>> THEN {} ELSE {Head(shards).id} \cup ids_of(Tail(shards))

\* list_shards_callback with a successful outcome: the page's shards are
\* stored and backoff_ reset; with a next token the next page is requested,
\* without one build_minimal_disjoint_hashranges starts (outside any lock):
\* its loop leaves the entries in end_hash_key_to_shard_id_ from the highest
\* end hash key down
ListShardsSucceeded(shards, more) ==
    /\ cb_pc = "idle"
    /\ requests > 0
    /\ open_shards_' = open_shards_ \o shards
    /\ open_shard_ids_' = open_shard_ids_ \cup ids_of(shards)
    /\ backoff_' = min_backoff_
    /\ IF more
       THEN /\ requests' = (requests - 1) + 1
            /\ cb_pc' = "idle"
            /\ UNCHANGED end_hash_key_to_shard_id_
       ELSE /\ requests' = requests - 1
            /\ end_hash_key_to_shard_id_' =
                   IF open_shards_ \o shards = <<>> THEN end_hash_key_to_shard_id_
                   ELSE reconcile_loop(heap_of(open_shards_ \o shards, <<>>),
                                       InitialWatermark, end_hash_key_to_shard_id_)
            /\ cb_pc' = IF open_shards_ \o shards = <<>> THEN "commit_wait"
                        ELSE "reverse"
    /\ UNCHANGED <<state_, scheduled_callback_, tasks, cache_vars, janitor_vars,
                   updated_at_, mutex_, shard_cache_mutex_, inv_pc, now, ret>>

\* list_shards_callback with a successful outcome whose page holds a shard id
\* that shard_id_from_str cannot parse: the exception leaves the callback
\* after the shards up to that one were stored; backoff_ is not reset, no
\* page is requested and update_fail is not called.  Whether the thread that
\* ran the callback survives the exception is not decided here: a process
\* that ends is a behaviour that takes no further step
ListShardsThrows(raw) ==
    /\ cb_pc = "idle"
    /\ requests > 0
    /\ parse_page(raw, NoPage).thrown
    /\ open_shards_' = open_shards_ \o parse_page(raw, NoPage).shards
    /\ open_shard_ids_' = open_shard_ids_ \cup parse_page(raw, NoPage).ids
    /\ requests' = requests - 1
    /\ UNCHANGED <<state_, end_hash_key_to_shard_id_, scheduled_callback_, tasks,
                   cache_vars, janitor_vars, updated_at_, backoff_, mutex_,
                   shard_cache_mutex_, cb_pc, inv_pc, now, ret>>

\* list_shards_callback with a successful outcome, from the page as sent
ListShardsPage(raw, more) ==
    /\ ~parse_page(raw, NoPage).thrown
    /\ ListShardsSucceeded(parse_page(raw, NoPage).shards, more)

\* build_minimal_disjoint_hashranges: std::reverse puts the entries in
\* ascending order (outside any lock)
BuildReverse ==
    /\ cb_pc = "reverse"
    /\ end_hash_key_to_shard_id_' = Reverse(end_hash_key_to_shard_id_)
    /\ cb_pc' = "cache_wait"
    /\ UNCHANGED <<state_, open_shards_, open_shard_ids_, scheduled_callback_,
                   tasks, requests, cache_vars, janitor_vars, updated_at_,
                   backoff_, mutex_, shard_cache_mutex_, inv_pc, now, ret>>

\* build_minimal_disjoint_hashranges: WriteLock lock(shard_cache_mutex_)
BuildCacheLock ==
    /\ cb_pc = "cache_wait"
    /\ shard_cache_mutex_ = "none"
    /\ shard_cache_mutex_' = "cb"
    /\ cb_pc' = "cache"
    /\ UNCHANGED <<refresh_vars, cache_vars, janitor_vars, updated_at_, backoff_,
                   mutex_, inv_pc, now, ret>>

\* cache_insert gone wrong: the cache is made anew from the listing, the
\* entries it held are dropped
RECURSIVE cache_insert_fresh(_, _)
cache_insert_fresh(cache, shards) ==
    IF shards = <<>> THEN <<>>
    ELSE LET c == cache_insert_fresh(cache, Tail(shards))
             s == Head(shards)
         IN  [i \in DOMAIN c \cup {s.id} |-> IF i = s.id THEN s ELSE c[i]]

\* cache_insert gone wrong: the first shard of the listing is not inserted
RECURSIVE cache_insert_skip_first(_, _)
cache_insert_skip_first(cache, shards) ==
    IF Len(shards) <= 1 THEN cache
    ELSE LET s == shards[Len(shards)]
             c == IF s.id \in DOMAIN cache THEN cache
                  ELSE [i \in DOMAIN cache \cup {s.id} |->
                           IF i = s.id THEN s ELSE cache[i]]
         IN  cache_insert_skip_first(c, SubSeq(shards, 1, Len(shards) - 1))

\* unordered_map::insert of every shard: an id already in the cache keeps
\* its entry
RECURSIVE cache_insert(_, _)
cache_insert(cache, shards) ==
    IF shards = <<>> THEN cache
    ELSE LET s == Head(shards)
             c == IF s.id \in DOMAIN cache THEN cache
                  ELSE [i \in DOMAIN cache \cup {s.id} |->
                           IF i = s.id THEN s ELSE cache[i]]
         IN  cache_insert(c, Tail(shards))

\* BuildCache gone wrong: the cache lock is not released at the end of the
\* block, the commit asks for the index lock with the cache lock held
BuildCache_keeps_lock ==
    /\ cb_pc = "cache"
    /\ shard_cache_needs_cleanup_' = TRUE
    /\ shard_id_to_shard_cache_' = cache_insert(shard_id_to_shard_cache_, open_shards_)
    /\ cb_pc' = "commit_wait"
    /\ UNCHANGED <<refresh_vars, janitor_vars, updated_at_, backoff_, mutex_,
                   shard_cache_mutex_, inv_pc, now, ret>>

\* build_minimal_disjoint_hashranges under the cache lock: the flag is set
\* and every shard of open_shards_ inserted; the lock is released
BuildCache ==
    /\ cb_pc = "cache"
    /\ shard_cache_needs_cleanup_' = TRUE
    /\ shard_id_to_shard_cache_' = cache_insert(shard_id_to_shard_cache_, open_shards_)
    /\ shard_cache_mutex_' = "none"
    /\ cb_pc' = "commit_wait"
    /\ UNCHANGED <<refresh_vars, janitor_vars, updated_at_, backoff_, mutex_,
                   inv_pc, now, ret>>

\* list_shards_callback: WriteLock lock(mutex_)
CommitLock ==
    /\ cb_pc = "commit_wait"
    /\ CanWrite(mutex_)
    /\ mutex_' = [mutex_ EXCEPT !.writer = "cb"]
    /\ cb_pc' = "commit"
    /\ UNCHANGED <<refresh_vars, cache_vars, janitor_vars, updated_at_, backoff_,
                   shard_cache_mutex_, inv_pc, now, ret>>

\* list_shards_callback under the lock: READY and updated_at_ = now()
Commit ==
    /\ cb_pc = "commit"
    /\ state_' = "READY"
    /\ updated_at_' = now
    /\ mutex_' = [mutex_ EXCEPT !.writer = "none"]
    /\ cb_pc' = "idle"
    /\ UNCHANGED <<end_hash_key_to_shard_id_, open_shards_, open_shard_ids_,
                   scheduled_callback_, tasks, requests, cache_vars,
                   janitor_vars, backoff_, shard_cache_mutex_, inv_pc, now, ret>>

\* ------------------------------------------------------ the cleanup thread

\* sleep_for(closed_shard_ttl_ / 2) ends and now is read
CleanupWake ==
    /\ jan_pc = "sleep"
    /\ now >= jan_wake
    /\ jan_now' = now
    /\ jan_pc' = "lock_wait"
    /\ UNCHANGED <<refresh_vars, cache_vars, jan_wake, updated_at_, backoff_,
                   mutex_, shard_cache_mutex_, cb_pc, inv_pc, now, ret>>

\* cleanup gone wrong: the state is not tested
cleanup_due_any_state(updated_at, local_now, state, needs_cleanup) ==
    /\ updated_at + closed_shard_ttl_ < local_now
    /\ needs_cleanup

\* cleanup gone wrong: the time since the last refresh is not tested
cleanup_due_no_ttl(updated_at, local_now, state, needs_cleanup) ==
    /\ state = "READY"
    /\ needs_cleanup

\* cleanup gone wrong: <= for <, the sweep is due at updated_at_ + ttl already
cleanup_due_le(updated_at, local_now, state, needs_cleanup) ==
    /\ updated_at + closed_shard_ttl_ <= local_now
    /\ state = "READY"
    /\ needs_cleanup

\* whether cleanup() goes on to sweep the cache
cleanup_due(updated_at, local_now, state, needs_cleanup) ==
    /\ updated_at + closed_shard_ttl_ < local_now
    /\ state = "READY"
    /\ needs_cleanup

\* cleanup: ReadLock lock(mutex_), then the tests; when they fail the lock is
\* released and the thread sleeps again (its local now is dead from here on)
CleanupLock ==
    /\ jan_pc = "lock_wait"
    /\ CanRead(mutex_)
    /\ IF cleanup_due(updated_at_, jan_now, state_, shard_cache_needs_cleanup_)
       THEN /\ mutex_' = [mutex_ EXCEPT !.readers = @ \cup {"jan"}]
            /\ jan_pc' = "cache_wait"
            /\ UNCHANGED jan_wake
       ELSE /\ UNCHANGED mutex_
            /\ jan_pc' = "sleep"
            /\ jan_wake' = now + CleanupPeriod
    /\ jan_now' = 0
    /\ UNCHANGED <<refresh_vars, cache_vars, updated_at_, backoff_,
                   shard_cache_mutex_, cb_pc, inv_pc, now, ret>>

\* cleanup: WriteLock lock(shard_cache_mutex_), holding the read lock
CleanupCacheLock ==
    /\ jan_pc = "cache_wait"
    /\ shard_cache_mutex_ = "none"
    /\ shard_cache_mutex_' = "jan"
    /\ jan_pc' = "sweep"
    /\ UNCHANGED <<refresh_vars, cache_vars, jan_now, jan_wake, updated_at_,
                   backoff_, mutex_, cb_pc, inv_pc, now, ret>>

\* sweep gone wrong: the test is inverted, the open shards are the ones erased
sweep_inverted(cache, open_ids) ==
    [i \in DOMAIN cache \ open_ids |-> cache[i]]

\* the cache without the entries whose id is not in open_ids
sweep(cache, open_ids) ==
    [i \in DOMAIN cache \cap open_ids |-> cache[i]]

\* cleanup under both locks: the sweep, the flag cleared, both locks released
CleanupSweep ==
    /\ jan_pc = "sweep"
    /\ shard_id_to_shard_cache_' = sweep(shard_id_to_shard_cache_, open_shard_ids_)
    /\ shard_cache_needs_cleanup_' = FALSE
    /\ shard_cache_mutex_' = "none"
    /\ mutex_' = [mutex_ EXCEPT !.readers = @ \ {"jan"}]
    /\ jan_pc' = "sleep"
    /\ jan_wake' = now + CleanupPeriod
    /\ UNCHANGED <<refresh_vars, jan_now, updated_at_, backoff_, cb_pc, inv_pc,
                   now, ret>>

\* ------------------------------------------------------------ the inputs

\* the elements of a sequence
Range(s) == {s[i] : i \in 1..Len(s)}

\* the clock's values up to now: what a caller can pass as seen_at
TimePoints == {t * CleanupPeriod : t \in 0..MaxTicks}

\* the stream of the refresh engine's exploration: a parent over the whole
\* hash key space and its two children
Catalog == {Shard(1, 0, MaxHash), Shard(2, 0, 49), Shard(3, 50, MaxHash)}

\* a page of the stream: empty, or one more shard, in the order of the ids
CatalogPages ==
    {<<>>} \cup
    {<<s>> : s \in {c \in Catalog :
                      /\ Len(open_shards_) < MaxShards
                      /\ \A o \in Range(open_shards_) : o.id < c.id}}

\* the hash keys the callers look up
LookupKeys == {49, 50, MaxHash}

\* what a caller can pass as predicted_shard
Predicted == {None} \cup {Some(c.id) : c \in Catalog}

\* ------------------------------------------------------------ Spec

\* the ShardMap with its callers, the completion context and the executor
\* running concurrently
Next ==
    \/ Tick
    \/ \E k \in LookupKeys : ShardIdCall(k)
    \/ \E c \in Catalog : GetShardCall(c.id)
    \/ InvalidateLock
    \/ \E t \in {p \in TimePoints : p <= now}, s \in Predicted : InvalidateBody(t, s)
    \/ RetryFires
    \/ (FailuresBelow(MaxFails) /\ ListShardsFailed)
    \/ UpdateFailLock
    \/ UpdateFail
    \/ \E page \in CatalogPages, more \in BOOLEAN : ListShardsSucceeded(page, more)
    \/ BuildReverse
    \/ BuildCacheLock
    \/ BuildCache
    \/ CommitLock
    \/ Commit

Spec == Init /\ [][Next]_vars

\* ------------------------------------------------------------ SpecCache

\* the same with the cleanup thread running too, and a page request failing
\* only as the first of its refresh and not twice in a row
NextCache ==
    \/ Tick
    \/ \E k \in {50, MaxHash} : ShardIdCall(k)
    \/ \E c \in Catalog : GetShardCall(c.id)
    \/ InvalidateLock
    \/ \E s \in Predicted : InvalidateBody(now, s)
    \/ RetryFires
    \/ (open_shards_ = <<>> /\ FailuresBelow(1) /\ ListShardsFailed)
    \/ UpdateFailLock
    \/ UpdateFail
    \/ \E page \in CatalogPages \ {<<>>}, more \in BOOLEAN :
           ListShardsSucceeded(page, more)
    \/ BuildReverse
    \/ BuildCacheLock
    \/ BuildCache
    \/ CommitLock
    \/ Commit
    \/ CleanupWake
    \/ CleanupLock
    \/ CleanupCacheLock
    \/ CleanupSweep

SpecCache == Init /\ [][NextCache]_vars

\* ------------------------------------------------------------ SpecRec

\* the range endpoints of the reconciler's exploration: the lowest hash keys
\* and the two highest
RecPoints == (0..RecMax) \cup {MaxHash - 1, MaxHash}

\* every hash key
HashKeys == 0..MaxHash

\* a page of one shard with any range over RecPoints; a shard's id is its
\* place in the listing
RecPages ==
    IF Len(open_shards_) < MaxShards
    THEN {<<Shard(Len(open_shards_) + 1, s, e)>> :
              <<s, e>> \in {r \in RecPoints \X RecPoints : r[1] <= r[2]}}
    ELSE {}

\* one refresh over every shard list, then lookups of the lowest hash key
NextRec ==
    \/ \E page \in RecPages, more \in BOOLEAN : ListShardsSucceeded(page, more)
    \/ BuildReverse
    \/ BuildCacheLock
    \/ BuildCache
    \/ CommitLock
    \/ Commit
    \/ (state_ = "READY" /\ ShardIdCall(0))

SpecRec == Init /\ [][NextRec]_vars

\* ------------------------------------------------------------ SpecEx

\* the two shards of the steady state scenario
Steady == {Shard(11, 0, 49), Shard(12, 50, 99)}
\* a parent and the two children that partition its range
MidReshard == {Shard(21, 0, 99), Shard(22, 0, 49), Shard(23, 50, 99)}
Scenarios == {Steady, MidReshard}

\* a page of one shard of a scenario: any shard of it not yet listed, so the
\* shards of a scenario arrive in every order
ScenarioPages ==
    {<<s>> : s \in {x \in UNION Scenarios :
                      /\ x \notin Range(open_shards_)
                      /\ \E sc \in Scenarios :
                             x \in sc /\ Range(open_shards_) \subseteq sc}}

\* the hash keys looked up in the scenarios
ScenarioKeys == {25, 50, 99}

\* the refreshes of the scenarios, a first page that may fail, and lookups
NextEx ==
    \/ \E page \in ScenarioPages, more \in BOOLEAN : ListShardsSucceeded(page, more)
    \/ BuildReverse
    \/ BuildCacheLock
    \/ BuildCache
    \/ CommitLock
    \/ Commit
    \/ (open_shards_ = <<>> /\ FailuresBelow(1) /\ ListShardsFailed)
    \/ UpdateFailLock
    \/ UpdateFail
    \/ RetryFires
    \/ \E k \in ScenarioKeys : ShardIdCall(k)
    \/ GetShardCall(21)

SpecEx == Init /\ [][NextEx]_vars

\* ------------------------------------------------------------ SpecLineage

\* the lineage of the reconciler's comment: parents 0 and 1, their children
\* 3, 4, 5 and 6, and 7, merged from 4 and 5
Lineage == {Shard(0, 0, 5), Shard(1, 6, 10), Shard(3, 0, 2), Shard(4, 3, 5),
            Shard(5, 6, 8), Shard(6, 9, 10), Shard(7, 3, 8)}

\* a page of one shard of the lineage not yet listed: the shards arrive in
\* every order
LineagePages == {<<s>> : s \in Lineage \ Range(open_shards_)}

\* one refresh that lists the lineage, and a lookup
NextLineage ==
    \/ \E page \in LineagePages, more \in BOOLEAN : ListShardsSucceeded(page, more)
    \/ BuildReverse
    \/ BuildCacheLock
    \/ BuildCache
    \/ CommitLock
    \/ Commit
    \/ (state_ = "READY" /\ ShardIdCall(5))

SpecLineage == Init /\ [][NextLineage]_vars

\* ------------------------------------------------------------ SpecBackoff

\* the listing of the backoff exploration: the one shard of an unsplit stream
Unsplit == Shard(1, 0, MaxHash)

\* page requests that fail any number of times in a row, the retries, and
\* refreshes of one page
NextBackoff ==
    \/ Tick
    \/ ListShardsFailed
    \/ UpdateFailLock
    \/ UpdateFail
    \/ RetryFires
    \/ (open_shards_ = <<>> /\ ListShardsSucceeded(<<Unsplit>>, FALSE))
    \/ BuildReverse
    \/ BuildCacheLock
    \/ BuildCache
    \/ CommitLock
    \/ Commit
    \/ InvalidateLock
    \/ InvalidateBody(now, None)
    \/ ShardIdCall(0)
    \/ GetShardCall(1)

SpecBackoff == Init /\ [][NextBackoff]_vars

\* ------------------------------------------------------------ SpecParse

\* the shard id strings of the parsing exploration: well formed ones, one
\* with text after the digits, and ones without a "-", without digits, with
\* a letter for a digit and with a number above ULLONG_MAX
RawIds ==
    {ShardIdText \o <<"-">> \o x :
         x \in {<<"0", "0", "1">>, <<"0", "1", "2">>, <<"1", "x">>, <<>>,
                <<"x", "1">>, <<"9", "9", "9">>}}
    \cup {ShardIdText}

\* a page of one or two shards over the whole hash key space
RawPages ==
    IF Len(open_shards_) < MaxShards - 1
    THEN {<<RawShard(i, 0, MaxHash)>> : i \in RawIds}
         \cup {<<RawShard(ShardIdText \o <<"-", "0", "0", "1">>, 0, 49),
                 RawShard(i, 50, MaxHash)>> : i \in RawIds}
    ELSE {}

\* refreshes whose pages arrive as sent, shard ids as strings
NextParse ==
    \/ \E raw \in RawPages, more \in BOOLEAN : ListShardsPage(raw, more)
    \/ \E raw \in RawPages : ListShardsThrows(raw)
    \/ BuildReverse
    \/ BuildCacheLock
    \/ BuildCache
    \/ CommitLock
    \/ Commit
    \/ (open_shards_ = <<>> /\ FailuresBelow(1) /\ ListShardsFailed)
    \/ UpdateFailLock
    \/ UpdateFail
    \/ RetryFires
    \/ Tick
    \/ InvalidateLock
    \/ InvalidateBody(now, None)
    \/ ShardIdCall(0)

SpecParse == Init /\ [][NextParse]_vars

\* ------------------------------------------------------------ SpecEscalation

\* refreshes of several pages, any of which may fail, up to the first
\* refresh that succeeds: no caller invalidates, so every failed refresh of a
\* behaviour follows the one before it with no successful refresh between
NextEscalation ==
    \/ (FailuresBelow(MaxFails) /\ ListShardsFailed)
    \/ UpdateFailLock
    \/ UpdateFail
    \/ RetryFires
    \/ \E page \in CatalogPages \ {<<>>}, more \in BOOLEAN :
           ListShardsSucceeded(page, more)
    \/ BuildReverse
    \/ BuildCacheLock
    \/ BuildCache
    \/ CommitLock
    \/ Commit
    \/ \E k \in LookupKeys : ShardIdCall(k)

SpecEscalation == Init /\ [][NextEscalation]_vars

\* ------------------------------------------------------------ SpecJanitor

\* a refresh of one page: no shard, or one shard of the stream
OnePages == IF open_shards_ = <<>> THEN {<<>>} \cup {<<c>> : c \in Catalog} ELSE {}

\* the cleanup thread with refreshes of one page each (the first page request
\* of a refresh may fail, not twice in a row), invalidations at any time and
\* get_shard of the parent
NextJanitor ==
    \/ TickTo(JanTicks)
    \/ GetShardCall(1)
    \/ InvalidateLock
    \/ InvalidateBody(now, None)
    \/ RetryFires
    \/ (FailuresBelow(1) /\ ListShardsFailed)
    \/ UpdateFailLock
    \/ UpdateFail
    \/ \E page \in OnePages : ListShardsSucceeded(page, FALSE)
    \/ BuildReverse
    \/ BuildCacheLock
    \/ BuildCache
    \/ CommitLock
    \/ Commit
    \/ CleanupWake
    \/ CleanupLock
    \/ CleanupCacheLock
    \/ CleanupSweep

SpecJanitor == Init /\ [][NextJanitor]_vars

\* ------------------------------------------------------------ SpecTtl

\* the cleanup thread with refreshes of one shard each, where a caller
\* invalidates only later than closed_shard_ttl after the last refresh: a
\* refresh that follows another commits later than closed_shard_ttl after it
NextTtl ==
    \/ TickTo(JanTicks)
    \/ GetShardCall(1)
    \/ InvalidateLock
    \/ (now > updated_at_ + closed_shard_ttl_ /\ InvalidateBody(now, None))
    \/ \E page \in OnePages \ {<<>>} : ListShardsSucceeded(page, FALSE)
    \/ BuildReverse
    \/ BuildCacheLock
    \/ BuildCache
    \/ CommitLock
    \/ Commit
    \/ CleanupWake
    \/ CleanupLock
    \/ CleanupCacheLock
    \/ CleanupSweep

SpecTtl == Init /\ [][NextTtl]_vars

\* ------------------------------------------------------------ SpecRepair

\* the pages of the self-repair exploration, shard ids as strings: one shard
\* over the whole hash key space with a well formed id or with an id without
\* digits, or the two halves; an empty page once two shards are listed
RepairPages ==
    IF Len(open_shards_) < MaxShards - 1
    THEN {<<RawShard(ShardIdText \o <<"-">> \o x, 0, MaxHash)>> :
              x \in {<<"0", "0", "1">>, <<>>}}
         \cup {<<RawShard(ShardIdText \o <<"-", "0", "0", "1">>, 0, 49),
                 RawShard(ShardIdText \o <<"-", "0", "0", "2">>, 50, MaxHash)>>}
    ELSE {<<>>}

\* the topology client delivers a successful outcome to the callback
ListShardsResponse ==
    \/ \E raw \in RepairPages, more \in BOOLEAN : ListShardsPage(raw, more)
    \/ \E raw \in RepairPages : ListShardsThrows(raw)

\* the refresh engine with page requests that fail any number of times, the
\* executor and callers that invalidate
NextRepair ==
    \/ Tick
    \/ ListShardsFailed
    \/ UpdateFailLock
    \/ UpdateFail
    \/ RetryFires
    \/ ListShardsResponse
    \/ BuildReverse
    \/ BuildCacheLock
    \/ BuildCache
    \/ CommitLock
    \/ Commit
    \/ InvalidateLock
    \/ InvalidateBody(now, None)
    \/ ShardIdCall(0)

\* a successful outcome can be delivered: a request is in flight and the
\* completion context is free (what ENABLED <<ListShardsResponse>>_vars
\* comes to, RepairPages being never empty)
ResponseDue == cb_pc = "idle" /\ requests > 0

\* fairness: the executor runs a pending retry, the client answers a request
\* in flight (weak fairness of ListShardsResponse, written out), a callback
\* that runs goes on, a thread that holds a lock returns, and a thread that
\* waits for a lock gets it if the lock is free again and again
RepairFairness ==
    /\ WF_vars(RetryFires)
    /\ ([]<>(~ResponseDue) \/ []<><<ListShardsResponse>>_vars)
    /\ WF_vars(UpdateFail)
    /\ WF_vars(BuildReverse)
    /\ WF_vars(BuildCache)
    /\ WF_vars(Commit)
    /\ WF_vars(InvalidateBody(now, None))
    /\ SF_vars(UpdateFailLock)
    /\ SF_vars(BuildCacheLock)
    /\ SF_vars(CommitLock)

SpecRepair == Init /\ [][NextRepair]_vars /\ RepairFairness

\* ------------------------------------------------------------ SpecIds

\* a caller converts a shard id to its string
ShardIdToStrCall(id) ==
    /\ ret' = [op |-> "shard_id_to_str", arg |-> Some(id), locked |-> TRUE,
               val |-> shard_id_to_str(id)]
    /\ UNCHANGED <<refresh_vars, cache_vars, janitor_vars, updated_at_, backoff_,
                   mutex_, shard_cache_mutex_, cb_pc, inv_pc, now>>

\* a caller converts the string it was handed back to a shard id
ShardIdFromStrCall ==
    /\ ret.op = "shard_id_to_str"
    /\ ret.val.ok
    /\ ret' = [op |-> "shard_id_from_str", arg |-> Some(ret.val.value),
               locked |-> TRUE, val |-> shard_id_from_str(ret.val.value)]
    /\ UNCHANGED <<refresh_vars, cache_vars, janitor_vars, updated_at_, backoff_,
                   mutex_, shard_cache_mutex_, cb_pc, inv_pc, now>>

\* every shard id
ShardIds == 0..IdMax

\* the two static conversions, applied to every shard id
NextIds ==
    \/ \E id \in ShardIds : ShardIdToStrCall(id)
    \/ ShardIdFromStrCall

SpecIds == Init /\ [][NextIds]_vars

\* ------------------------------------------------------------ the claims

\* what shard_id returns for k when it gets the read lock
Lookup(k) == shard_id(k, TRUE, state_, end_hash_key_to_shard_id_)

\* the shard with the given id among those of the refresh
ShardById(id) == CHOOSE s \in Range(open_shards_) : s.id = id

\* hash key k lies in the range of a shard the refresh returned
Listed(k) == \E x \in Range(open_shards_) : x.start <= k /\ k <= x.end

\* the ids the index refers to
IndexIds == {end_hash_key_to_shard_id_[i].second :
                 i \in 1..Len(end_hash_key_to_shard_id_)}

\* C1 as stated: after a successful refresh, every hash key that shard_id
\* maps to a shard lies in that shard's own range, whatever the shard list
C1_Containment ==
    state_ = "READY" =>
        \A k \in HashKeys :
            Lookup(k) # None =>
                LET s == ShardById(Lookup(k)[1]) IN s.start <= k /\ k <= s.end

\* C1 amended: after a successful refresh, a hash key that shard_id maps to
\* a shard is not above that shard's own end, and it is not below the
\* shard's own start either when it lies in the range of at least one shard
\* the refresh returned
C1_ContainmentOfListedKeys ==
    state_ = "READY" =>
        \A k \in HashKeys :
            Lookup(k) # None =>
                LET s == ShardById(Lookup(k)[1])
                IN  k <= s.end /\ (Listed(k) => s.start <= k)

\* a lookup has returned the shard of a listed key after a refresh whose
\* shards leave a hole
C1_Witness ==
    /\ state_ = "READY"
    /\ Len(open_shards_) = MaxShards
    /\ ret.op = "shard_id" /\ ret.val # None
    /\ ret.val = Lookup(ret.arg[1])
    /\ Listed(ret.arg[1])
    /\ \E k \in HashKeys : ~Listed(k) /\ Lookup(k) # None

\* the condition under which invalidate(t, p) is to start a refresh
C2_Allowed(t, p) ==
    /\ t > updated_at_
    /\ state_ = "READY"
    /\ (p = None \/ p[1] \in open_shard_ids_)

\* C2: invalidate(seen_at, predicted_shard) starts a refresh (READY to
\* UPDATING, one first-page request issued) only if seen_at > updated_at,
\* the state is READY and predicted_shard is absent or in the open set; in
\* every other case state, index, open set, cache, backoff and the scheduled
\* retry are unchanged
C2_InvalidateStartsRefreshOnlyIf ==
    [][\A t \in TimePoints, p \in Predicted :
           InvalidateBody(t, p) =>
               /\ (state_' # state_ \/ requests' # requests) =>
                      /\ C2_Allowed(t, p)
                      /\ state_' = "UPDATING"
                      /\ requests' = requests + 1
               /\ ~C2_Allowed(t, p) =>
                      UNCHANGED <<state_, end_hash_key_to_shard_id_, open_shards_,
                                  open_shard_ids_, shard_id_to_shard_cache_,
                                  shard_cache_needs_cleanup_, backoff_,
                                  scheduled_callback_, tasks, requests>>]_vars

\* an invalidate has started a refresh: no page request ever failed, yet a
\* refresh after the first successful one is under way
C2_Witness ==
    /\ ret.op = "invalidate"
    /\ state_ = "UPDATING" /\ requests = 1 /\ open_shards_ = <<>>
    /\ ~scheduled_callback_.created
    /\ DOMAIN shard_id_to_shard_cache_ # {}

\* C3: under every interleaving of invalidate calls, page callbacks and
\* firings of the scheduled retry, at most one page request is in flight,
\* and update() called while the state is UPDATING changes nothing and
\* issues no request
C3_NoReentrantRefresh ==
    /\ requests <= 1
    /\ state_ = "UPDATING" => update(Refresh) = Refresh

\* a refresh started by a fired retry is under way with its request in
\* flight, and an invalidate call has come and gone, after an earlier
\* successful refresh
C3_Witness ==
    /\ state_ = "UPDATING" /\ requests = 1
    /\ scheduled_callback_.created /\ ~scheduled_callback_.pending
    /\ ret.op = "invalidate"
    /\ DOMAIN shard_id_to_shard_cache_ # {}

\* the first entry, in the order of the index, whose end hash key is not
\* below k
FirstEntryFor(k) ==
    LET index == end_hash_key_to_shard_id_
        hits  == {i \in 1..Len(index) : index[i].first >= k}
    IN  IF hits = {} THEN None
        ELSE Some(index[CHOOSE i \in hits : \A j \in hits : i <= j].second)

\* C4: shard_id returns an id only in state READY, and then the id of the
\* first index entry whose end hash key is not below the key; in INVALID
\* and UPDATING it returns absent.  With the index {(49, 11), (99, 12)}:
\* shard_id(25) = 11, shard_id(50) = 12, shard_id(99) = 12
C4_LookupFirstEntryNotBelow ==
    /\ \A k \in HashKeys :
           \A locked \in BOOLEAN :
               LET r == shard_id(k, locked, state_, end_hash_key_to_shard_id_)
               IN  /\ r # None => state_ = "READY" /\ r = FirstEntryFor(k)
                   /\ state_ # "READY" => r = None
    /\ (state_ = "READY" /\ Range(open_shards_) = Steady) =>
           /\ end_hash_key_to_shard_id_ =
                  <<[first |-> 49, second |-> 11], [first |-> 99, second |-> 12]>>
           /\ Lookup(25) = Some(11)
           /\ Lookup(50) = Some(12)
           /\ Lookup(99) = Some(12)
    /\ (ret.op = "shard_id" /\ ret.val # None) => state_ = "READY"

\* shard_id(50) has returned 12 from the index of the steady state scenario
C4_Witness ==
    /\ state_ = "READY"
    /\ Range(open_shards_) = Steady
    /\ ret = [op |-> "shard_id", arg |-> Some(50), locked |-> TRUE,
              val |-> Some(12)]

\* C5: shard_id never waits for the index lock: whatever the state of the
\* two locks the call can complete at once, and while a writer holds the
\* index lock it returns absent
C5_LookupNeverWaits ==
    /\ \A k \in LookupKeys : ENABLED ShardIdCall(k)
    /\ mutex_.writer # "none" =>
           \A k \in HashKeys :
               shard_id(k, CanRead(mutex_), state_, end_hash_key_to_shard_id_) = None
    /\ (ret.op = "shard_id" /\ ~ret.locked) => ret.val = None

\* shard_id has returned absent because a writer held the index lock, for a
\* key the index maps, and a writer holds the lock of a READY map
C5_Witness ==
    /\ mutex_.writer # "none"
    /\ state_ = "READY"
    /\ ret.op = "shard_id" /\ ~ret.locked /\ ret.val = None
    /\ Lookup(ret.arg[1]) # None

\* C6: for the lineage {0:0-5, 1:6-10, 3:0-2, 4:3-5, 5:6-8, 6:9-10, 7:3-8},
\* in whatever order the shards arrive, the index is exactly
\* [(2, 3), (5, 4), (8, 5), (10, 6)]: neither the grandchild 7 nor the
\* parents 0 and 1 are in it
C6_ParentPreference ==
    state_ = "READY" /\ Range(open_shards_) = Lineage =>
        /\ end_hash_key_to_shard_id_ =
               <<[first |-> 2, second |-> 3], [first |-> 5, second |-> 4],
                 [first |-> 8, second |-> 5], [first |-> 10, second |-> 6]>>
        /\ IndexIds \cap {0, 1, 7} = {}

\* the lineage has been reconciled after arriving grandchild first, parents
\* last, and shard_id(5) has returned child 4
C6_Witness ==
    /\ state_ = "READY"
    /\ Range(open_shards_) = Lineage
    /\ open_shards_[1].id = 7 /\ open_shards_[6].id = 1 /\ open_shards_[7].id = 0
    /\ ret.op = "shard_id" /\ ret.val = Some(4)

\* C7: a refresh that returns shard 21:(0, 99) with 22:(0, 49) and
\* 23:(50, 99), which partition its range, gives the index
\* {(49, 22), (99, 23)}: 21 is not in the index, yet get_shard(21) is defined
C7_MidReshard ==
    state_ = "READY" /\ Range(open_shards_) = MidReshard =>
        /\ end_hash_key_to_shard_id_ =
               <<[first |-> 49, second |-> 22], [first |-> 99, second |-> 23]>>
        /\ 21 \notin IndexIds
        /\ get_shard(21, shard_id_to_shard_cache_) = Some(Shard(21, 0, 99))

\* get_shard(21) has returned the parent after the mid-reshard refresh, in
\* which the parent arrived last
C7_Witness ==
    /\ state_ = "READY"
    /\ Range(open_shards_) = MidReshard
    /\ open_shards_[3].id = 21
    /\ ret = [op |-> "get_shard", arg |-> Some(21), locked |-> TRUE,
              val |-> Some(Shard(21, 0, 99))]

\* the highest ending hash key among the shards of the refresh
MaxEnd == CHOOSE e \in {s.end : s \in Range(open_shards_)} :
              \A s \in Range(open_shards_) : s.end <= e

\* C8: after a successful refresh with a non-empty shard list, the last
\* index entry's end hash key is the highest ending hash key among the
\* shards returned, also when that is the highest hash key there is, and
\* shard_id of it returns a shard
C8_LastEntryEndsAtMaxEnd ==
    state_ = "READY" /\ open_shards_ # <<>> =>
        /\ end_hash_key_to_shard_id_ # <<>>
        /\ end_hash_key_to_shard_id_[Len(end_hash_key_to_shard_id_)].first = MaxEnd
        /\ Lookup(MaxEnd) # None

\* C9: after a successful refresh the index entries are strictly increasing
\* in end hash key, every entry's end hash key lies between its shard's own
\* start and end, and the ranges from an entry's shard's start to the
\* entry's end hash key are pairwise disjoint
C9_DisjointCover ==
    state_ = "READY" =>
        LET index == end_hash_key_to_shard_id_
            lo(i) == ShardById(index[i].second).start
            hi(i) == index[i].first
        IN  /\ \A i \in 1..(Len(index) - 1) : hi(i) < hi(i + 1)
            /\ \A i \in 1..Len(index) :
                   lo(i) <= hi(i) /\ hi(i) <= ShardById(index[i].second).end
            /\ \A i, j \in 1..Len(index) :
                   i # j => (hi(i) < lo(j) \/ hi(j) < lo(i))

\* a refresh has committed an index of as many entries as shards, one of
\* them trimmed below its shard's own end
C9_Witness ==
    /\ state_ = "READY"
    /\ Len(end_hash_key_to_shard_id_) = MaxShards
    /\ \E i \in 1..Len(end_hash_key_to_shard_id_) :
           end_hash_key_to_shard_id_[i].first <
               ShardById(end_hash_key_to_shard_id_[i].second).end

\* C10: when a page request fails in state UPDATING the state becomes
\* INVALID, exactly one retry is pending, scheduled at the backoff held
\* before the failure, and backoff becomes min(backoff * 3 / 2, max_backoff)
\* in whole milliseconds; no caller is handed the failure
C10_FailureSchedulesRetry ==
    [][(UpdateFail /\ state_ = "UPDATING") =>
           /\ state_' = "INVALID"
           /\ tasks' = 1
           /\ scheduled_callback_'.pending
           /\ scheduled_callback_'.delay = backoff_
           /\ backoff_' = IF (backoff_ * 3) \div 2 < kMaxBackoff
                          THEN (backoff_ * 3) \div 2 ELSE kMaxBackoff
           /\ ret' = ret]_vars

\* a page request has failed with the backoff already at max_backoff: the
\* retry is pending at max_backoff
C10_Witness ==
    /\ state_ = "INVALID"
    /\ scheduled_callback_.pending /\ scheduled_callback_.delay = kMaxBackoff
    /\ backoff_ = kMaxBackoff
    /\ tasks = 1

\* C11: an empty topology response (a successful final page of a refresh
\* that has accumulated no shard) is treated as a failure: the state never
\* becomes READY with no shard listed and an empty index
C11_EmptyResponseIsFailure ==
    state_ = "READY" => (open_shards_ # <<>> /\ end_hash_key_to_shard_id_ # <<>>)

\* C12: a page with a shard id that cannot be parsed as "shardId-<digits>"
\* is handled as a failed page (INVALID and a retry scheduled): the state
\* machine is never left in UPDATING with no request in flight, no callback
\* at work and no retry scheduled
C12_UnparsableIdIsFailure ==
    ~(/\ state_ = "UPDATING"
      /\ requests = 0
      /\ cb_pc = "idle"
      /\ tasks = 0)

\* C13: with min_backoff <= max_backoff, every delay handed to the
\* executor's schedule or reschedule lies in [min_backoff, max_backoff], and
\* the first retry after a successful refresh is scheduled at min_backoff:
\* backoff is min_backoff when a refresh commits and stays so until a page
\* request fails
C13_BackoffBounds ==
    /\ min_backoff_ <= max_backoff_
    /\ [](scheduled_callback_.created =>
              /\ min_backoff_ <= scheduled_callback_.delay
              /\ scheduled_callback_.delay <= max_backoff_)
    /\ [][/\ UpdateFail =>
                 /\ scheduled_callback_'.delay = backoff_
                 /\ min_backoff_ <= backoff_ /\ backoff_ <= max_backoff_
          /\ Commit => backoff_ = min_backoff_
          /\ (~UpdateFail /\ backoff_ = min_backoff_) => backoff_' = min_backoff_]_vars

\* after a successful refresh and an invalidate, the first page request has
\* failed: the retry is pending at min_backoff
C13_Witness ==
    /\ state_ = "INVALID"
    /\ DOMAIN shard_id_to_shard_cache_ # {}
    /\ ret.op = "invalidate"
    /\ scheduled_callback_.pending
    /\ scheduled_callback_.delay = min_backoff_
    /\ backoff_ = next_backoff(min_backoff_)

\* C14: three failed refreshes in a row, with no successful refresh between
\* them, schedule their retries at 1000 ms, 1500 ms and 2250 ms in that
\* order (no refresh has succeeded before them in SpecEscalation): the
\* first retry is scheduled at 1000, the one after a retry at 1000 is
\* scheduled at 1500 and the one after a retry at 1500 at 2250
C14_Escalation ==
    [][UpdateFail =>
           /\ ~scheduled_callback_.created => scheduled_callback_'.delay = 1000
           /\ (scheduled_callback_.created /\ scheduled_callback_.delay = 1000) =>
                  scheduled_callback_'.delay = 1500
           /\ (scheduled_callback_.created /\ scheduled_callback_.delay = 1500) =>
                  scheduled_callback_'.delay = 2250]_vars

\* C15: at most one scheduled retry is pending at any time; a failure would
\* leave no second one pending (update_fail reschedules the handle it has)
\* and update() outside UPDATING leaves none pending (it cancels the handle
\* before the first page request)
C15_AtMostOnePendingRetry ==
    /\ tasks <= 1
    /\ (tasks = 1) = scheduled_callback_.pending
    /\ update_fail(Refresh, backoff_).tasks <= 1
    /\ state_ # "UPDATING" => update(Refresh).tasks = 0

\* the handle exists and its retry is pending again: a page request has
\* failed, the retry has fired and its refresh has failed too
C15_Witness ==
    /\ state_ = "INVALID"
    /\ tasks = 1
    /\ scheduled_callback_.pending
    /\ scheduled_callback_.delay = backoff_after(1)
    /\ backoff_ = backoff_after(2)

\* C16: in state READY, committed at updated_at, invalidate(seen_at, absent)
\* with seen_at > updated_at causes exactly one first-page request, and an
\* invalidate that arrives while the refresh is under way causes none
C16_InvalidateOnce ==
    [][\A t \in TimePoints, p \in Predicted :
           InvalidateBody(t, p) =>
               /\ (state_ = "READY" /\ t > updated_at_ /\ p = None) =>
                      /\ requests = 0
                      /\ requests' = 1
                      /\ state_' = "UPDATING"
                      /\ open_shards_' = <<>>
               /\ state_ = "UPDATING" =>
                      /\ requests' = requests
                      /\ state_' = "UPDATING"
                      /\ open_shards_' = open_shards_]_vars

\* a refresh started by an invalidate is under way, its first page has
\* arrived and the next is requested, and a further invalidate has returned
C16_Witness ==
    /\ state_ = "UPDATING"
    /\ requests = 1
    /\ open_shards_ # <<>>
    /\ DOMAIN shard_id_to_shard_cache_ # {}
    /\ ~scheduled_callback_.created
    /\ ret.op = "invalidate"
    /\ inv_pc = "idle"

\* the cache entries whose shard is not in the open set
Stale == DOMAIN shard_id_to_shard_cache_ \ open_shard_ids_

\* C17: get_shard(s) returns s's descriptor up to closed_shard_ttl after the
\* commit of the last successful refresh that contained s.  In steps: the
\* shards of the refresh a READY map rests on are all in the cache;
\* updated_at is the commit time of the last successful refresh and never
\* goes back; and an entry leaves the cache, or changes, only when the state
\* is READY, its shard is not in the open set of that last refresh and the
\* clock is past updated_at + closed_shard_ttl
C17_CacheRetention ==
    /\ [](state_ = "READY" =>
              \A s \in Range(open_shards_) :
                  get_shard(s.id, shard_id_to_shard_cache_) = Some(s))
    /\ [][/\ now' >= now
          /\ updated_at_' >= updated_at_
          /\ updated_at_' # updated_at_ => (updated_at_' = now /\ state_' = "READY")
          /\ \A id \in DOMAIN shard_id_to_shard_cache_ :
                 \/ get_shard(id, shard_id_to_shard_cache_') =
                        get_shard(id, shard_id_to_shard_cache_)
                 \/ /\ state_ = "READY"
                    /\ id \notin open_shard_ids_
                    /\ now > updated_at_ + closed_shard_ttl_]_vars

\* the cleanup thread holds both locks and is about to erase the parent,
\* which get_shard has returned; the refresh that dropped it was started by
\* an invalidate
C17_Witness ==
    /\ jan_pc = "sweep"
    /\ 1 \in Stale
    /\ ret.op = "get_shard" /\ ret.val # None
    /\ updated_at_ > 0
    /\ now > updated_at_ + closed_shard_ttl_

\* C18 as stated: X, present at refresh R1 and absent at a refresh R2 later
\* than R1 + closed_shard_ttl, is removed by the next cleanup tick after R2:
\* a tick that reads the clock after R2's commit, in state READY with X in
\* the cache and not in the open set, goes on to sweep the cache
C18_RemovedByNextTick ==
    [][(/\ CleanupLock
        /\ state_ = "READY"
        /\ jan_now > updated_at_
        /\ Stale # {}) => jan_pc' = "cache_wait"]_vars

\* C18 amended: X, present at R1 and absent at a refresh R2 that returns at
\* least one shard, is removed by the first cleanup tick that reads the
\* clock later than R2 + closed_shard_ttl with the state still READY from
\* R2; a tick that reads the clock at or before R2 + closed_shard_ttl leaves
\* X, and get_shard(X) returns X until the sweep of that first tick
C18_RemovedAfterTtl ==
    /\ []((state_ = "READY" /\ open_shards_ # <<>> /\ Stale # {}) =>
              shard_cache_needs_cleanup_)
    /\ [][/\ (CleanupLock /\ state_ = "READY" /\ shard_cache_needs_cleanup_
                  /\ Stale # {}) =>
                 /\ jan_now > updated_at_ + closed_shard_ttl_ =>
                        jan_pc' = "cache_wait"
                 /\ jan_now <= updated_at_ + closed_shard_ttl_ =>
                        jan_pc' = "sleep"
          /\ CleanupSweep =>
                 \A x \in Stale : get_shard(x, shard_id_to_shard_cache_') = None
          /\ ~CleanupSweep =>
                 \A x \in DOMAIN shard_id_to_shard_cache_ :
                     get_shard(x, shard_id_to_shard_cache_') =
                         get_shard(x, shard_id_to_shard_cache_)]_vars

\* get_shard returned the parent X, and X has since been erased: the state
\* is READY from a refresh without X and the flag is cleared
C18_Witness ==
    /\ state_ = "READY"
    /\ ret.op = "get_shard" /\ ret.val # None
    /\ ret.arg[1] \notin DOMAIN shard_id_to_shard_cache_
    /\ DOMAIN shard_id_to_shard_cache_ # {}
    /\ ~shard_cache_needs_cleanup_

\* C19: a cleanup wake-up removes cache entries only if the state is READY,
\* now - updated_at > closed_shard_ttl (now as the thread read it on waking)
\* and the flag is set; then it removes exactly the entries whose id is not
\* in the open set, leaves the others as they are and clears the flag; in
\* every other case it leaves the cache and the flag unchanged
C19_JanitorSweep ==
    [][/\ CleanupLock =>
              /\ UNCHANGED cache_vars
              /\ (jan_pc' = "cache_wait") =
                     (/\ state_ = "READY"
                      /\ jan_now - updated_at_ > closed_shard_ttl_
                      /\ shard_cache_needs_cleanup_)
              /\ jan_pc' \in {"cache_wait", "sleep"}
       /\ CleanupSweep =>
              /\ state_ = "READY"
              /\ now - updated_at_ > closed_shard_ttl_
              /\ shard_cache_needs_cleanup_
              /\ DOMAIN shard_id_to_shard_cache_' =
                     DOMAIN shard_id_to_shard_cache_ \cap open_shard_ids_
              /\ \A id \in DOMAIN shard_id_to_shard_cache_' :
                     shard_id_to_shard_cache_'[id] = shard_id_to_shard_cache_[id]
              /\ ~shard_cache_needs_cleanup_'
       /\ (CleanupWake \/ CleanupCacheLock) => UNCHANGED cache_vars]_vars

\* a sweep has erased every entry but those of the open set and cleared the
\* flag, and the thread sleeps again
C19_Witness ==
    /\ state_ = "READY"
    /\ jan_pc = "sleep"
    /\ ~shard_cache_needs_cleanup_
    /\ open_shard_ids_ # {}
    /\ DOMAIN shard_id_to_shard_cache_ = open_shard_ids_
    /\ jan_wake > updated_at_ + closed_shard_ttl_ + CleanupPeriod

\* C20: no lookup observes a partially built index: whenever shard_id
\* returns an id, the state is READY, no page request is in flight, the
\* completion callback is not at work and the index is the one
\* build_minimal_disjoint_hashranges makes of all the pages of the refresh,
\* although the callback writes the index before it takes the index lock
C20_NoPartialIndex ==
    [][\A k \in LookupKeys :
           (ShardIdCall(k) /\ ret'.val # None) =>
               /\ state_ = "READY"
               /\ requests = 0
               /\ cb_pc = "idle"
               /\ end_hash_key_to_shard_id_ = build_index(open_shards_, <<>>)]_vars

\* shard_id got the read lock and returned absent for a key that the index,
\* written by the reconciler's loop and not yet reversed or committed, holds
\* an entry for
C20_Witness ==
    /\ state_ = "UPDATING"
    /\ cb_pc = "reverse"
    /\ Len(end_hash_key_to_shard_id_) > 1
    /\ ret.op = "shard_id" /\ ret.locked /\ ret.val = None
    /\ shard_id(ret.arg[1], TRUE, "READY", end_hash_key_to_shard_id_) # None

\* C21: when a successful refresh with a non-empty shard list commits,
\* get_shard is defined for every shard the refresh returned, whether or not
\* the reconciler gave it an index entry, and the cleanup flag is set
C21_CommitFillsCache ==
    [][(Commit /\ open_shards_ # <<>>) =>
           /\ state_' = "READY"
           /\ shard_cache_needs_cleanup_'
           /\ \A s \in Range(open_shards_') :
                  get_shard(s.id, shard_id_to_shard_cache_') # None]_vars

\* a refresh of the parent and both children has committed: the parent has
\* no index entry, get_shard has returned it and the flag is set
C21_Witness ==
    /\ state_ = "READY"
    /\ cb_pc = "idle"
    /\ Len(open_shards_) = 3
    /\ 1 \notin IndexIds
    /\ ret.op = "get_shard" /\ ret.arg = Some(1) /\ ret.val # None
    /\ shard_cache_needs_cleanup_

\* C22: cache entries are removed only by the cleanup thread: every step
\* that is not its sweep (update() from invalidate or from the retry, a
\* page callback that succeeds or fails, the cache block of the reconciler,
\* the commit, shard_id, get_shard) leaves every entry the cache holds in
\* place with its descriptor
C22_OnlyJanitorRemoves ==
    [][~CleanupSweep =>
           \A id \in DOMAIN shard_id_to_shard_cache_ :
               /\ id \in DOMAIN shard_id_to_shard_cache_'
               /\ shard_id_to_shard_cache_'[id] = shard_id_to_shard_cache_[id]]_vars

\* the parent's entry has outlived the refresh that listed it: a later
\* refresh, started by an invalidate, has failed once and after the retry
\* has received a page without the parent, and get_shard returns the parent
C22_Witness ==
    /\ state_ = "UPDATING"
    /\ scheduled_callback_.created
    /\ open_shards_ # <<>>
    /\ 1 \in Stale
    /\ ret.op = "get_shard" /\ ret.arg = Some(1) /\ ret.val # None

\* C23: self-repair.  If page requests eventually stop failing, then from
\* any state INVALID or UPDATING the state eventually becomes READY, and a
\* failed refresh (state INVALID) is followed by the retry's page request
\* with no caller acting
C23_SelfRepair ==
    (<>[][~ListShardsFailed]_vars) =>
        /\ (state_ \in {"INVALID", "UPDATING"}) ~> (state_ = "READY")
        /\ (state_ = "INVALID") ~> (state_ = "UPDATING" /\ requests = 1)

\* C24: round trip.  For every id below 10^PadDigits (10^12 in the
\* program), shard_id_to_str(id) is "shardId-" followed by exactly PadDigits
\* decimal digits, the id padded with zeros on the left, and
\* shard_id_from_str of that string is id
C24_RoundTrip ==
    /\ []((ret.op = "shard_id_to_str" /\ ret.arg[1] < Pow10(PadDigits)) =>
              /\ ret.val.ok
              /\ Len(ret.val.value) = Len(ShardIdText) + 1 + PadDigits
              /\ SubSeq(ret.val.value, 1, Len(ShardIdText) + 1) =
                     ShardIdText \o <<"-">>
              /\ \A i \in (Len(ShardIdText) + 2)..Len(ret.val.value) :
                     IsDigit(ret.val.value[i])
              /\ read_digits(SubSeq(ret.val.value, Len(ShardIdText) + 2,
                                    Len(ret.val.value)), 0, 0).value = ret.arg[1])
    /\ [][(ret.op = "shard_id_to_str" /\ ret.arg[1] < Pow10(PadDigits)
               /\ ShardIdFromStrCall) =>
              ret'.val = Returned(ret.arg[1])]_vars

\* an id of fewer digits than the pad has been converted to its string, with
\* a zero on the left, and back
C24_Witness ==
    /\ ret.op = "shard_id_from_str"
    /\ Len(ret.arg[1]) = Len(ShardIdText) + 1 + PadDigits
    /\ ret.arg[1][Len(ShardIdText) + 2] = "0"
    /\ ret.val.ok /\ ret.val.value > 0

\* C25: in state READY every shard id the lookup index refers to is in the
\* open set of the most recent successful refresh: the index's ids are among
\* open_shard_ids_ and the ids of open_shards_, and neither the index nor
\* the open set changes while the state stays READY
C25_IndexIdsOpen ==
    /\ [](state_ = "READY" =>
              /\ IndexIds \subseteq open_shard_ids_
              /\ IndexIds \subseteq ids_of(open_shards_))
    /\ [][(state_ = "READY" /\ state_' = "READY") =>
              UNCHANGED <<end_hash_key_to_shard_id_, open_shard_ids_,
                          open_shards_>>]_vars

\* the map is READY from a second refresh, which lists both children and
\* not the parent the first refresh listed: the index refers to the children
C25_Witness ==
    /\ state_ = "READY"
    /\ IndexIds = {2, 3}
    /\ open_shard_ids_ = {2, 3}
    /\ 1 \in Stale

\* C26: topology inconsistency.  In state READY, shard_id of a hash key
\* above the last index entry's end hash key, or with an empty index,
\* returns absent and leaves the state, the index, the open set, the cache,
\* the backoff, updated_at and the scheduled retry as they are; it starts no
\* refresh
C26_KeyBeyondIndex ==
    [][\A k \in LookupKeys :
           (/\ ShardIdCall(k)
            /\ state_ = "READY"
            /\ \/ end_hash_key_to_shard_id_ = <<>>
               \/ k > end_hash_key_to_shard_id_[Len(end_hash_key_to_shard_id_)].first) =>
               /\ ret'.val = None
               /\ requests' = requests
               /\ UNCHANGED <<state_, end_hash_key_to_shard_id_, open_shards_,
                              open_shard_ids_, shard_id_to_shard_cache_,
                              shard_cache_needs_cleanup_, backoff_, updated_at_,
                              scheduled_callback_, tasks>>]_vars

\* the map is READY with an index whose last entry ends below the highest
\* hash key; shard_id of the highest hash key got the lock and returned
\* absent, and no refresh is under way
C26_Witness ==
    /\ state_ = "READY"
    /\ requests = 0
    /\ end_hash_key_to_shard_id_ # <<>>
    /\ end_hash_key_to_shard_id_[Len(end_hash_key_to_shard_id_)].first < MaxHash
    /\ ret.op = "shard_id" /\ ret.arg = Some(MaxHash) /\ ret.locked
    /\ ret.val = None

\* C27: a successful page that is not the last of its refresh, received
\* while UPDATING, only appends its shards to open_shards_ and requests the
\* next page: the state stays UPDATING and the backoff, updated_at, the
\* index, the cache and the scheduled retry are unchanged (the backoff is
\* reset to min_backoff only by the last page of a refresh)
C27_NonFinalPageFrame ==
    [][\A page \in CatalogPages :
           (state_ = "UPDATING" /\ ListShardsSucceeded(page, TRUE)) =>
               /\ state_' = "UPDATING"
               /\ open_shards_' = open_shards_ \o page
               /\ requests' = 1
               /\ UNCHANGED <<backoff_, updated_at_, end_hash_key_to_shard_id_,
                              shard_id_to_shard_cache_, shard_cache_needs_cleanup_,
                              scheduled_callback_, tasks>>]_vars

\* C28: when a successful refresh has committed, the open set and the
\* reconciler's input are exactly the shards of that refresh's pages.  In
\* steps: a refresh starts (the state becomes UPDATING) with no request in
\* flight and with open_shards_, open_shard_ids_ and the index empty,
\* whatever an earlier refresh, failed or not, had accumulated; from then on
\* open_shards_ changes only by a page's shards being appended while
\* UPDATING; and in READY the open set is the ids of open_shards_ and the
\* index is what the reconciler makes of open_shards_ alone
C28_RefreshStartsEmpty ==
    /\ [](state_ = "READY" =>
              /\ requests = 0
              /\ open_shard_ids_ = ids_of(open_shards_)
              /\ end_hash_key_to_shard_id_ = build_index(open_shards_, <<>>))
    /\ [][/\ (state_ # "UPDATING" /\ state_' = "UPDATING") =>
                 /\ requests = 0 /\ requests' = 1
                 /\ open_shards_' = <<>>
                 /\ open_shard_ids_' = {}
                 /\ end_hash_key_to_shard_id_' = <<>>
          /\ (state_' = state_ /\ open_shards_' # open_shards_) =>
                 /\ state_ = "UPDATING"
                 /\ \E page \in CatalogPages :
                        /\ open_shards_' = open_shards_ \o page
                        /\ open_shard_ids_' = open_shard_ids_ \cup ids_of(page)]_vars

\* a refresh has failed and the refresh of its retry has committed with the
\* two children, received in two pages
C28_Witness ==
    /\ state_ = "READY"
    /\ scheduled_callback_.created /\ ~scheduled_callback_.pending
    /\ open_shards_ = <<Shard(2, 0, 49), Shard(3, 50, MaxHash)>>
    /\ open_shard_ids_ = {2, 3}
    /\ Len(end_hash_key_to_shard_id_) = 2

\* the ranges of the refresh's shards leave no hole from 0 to the highest
\* end hash key
NoHole == \A k \in 0..MaxEnd : Listed(k)

\* C29: when the ranges of the shards a refresh returned jointly cover
\* [0, max_end] with no hole, the index has no gap: the shard of each entry
\* after the first starts no higher than one above the end hash key of the
\* entry before it, the first entry's shard starts at 0, and so every key
\* shard_id maps lies in the range of the shard it is mapped to
C29_NoGap ==
    (state_ = "READY" /\ open_shards_ # <<>> /\ NoHole) =>
        LET index == end_hash_key_to_shard_id_
            lo(i) == ShardById(index[i].second).start
        IN  /\ index # <<>>
            /\ lo(1) = 0
            /\ \A i \in 1..(Len(index) - 1) : lo(i + 1) <= index[i].first + 1
            /\ \A k \in HashKeys :
                   Lookup(k) # None =>
                       /\ ShardById(Lookup(k)[1]).start <= k
                       /\ k <= ShardById(Lookup(k)[1]).end

\* three shards that cover the hash keys with no hole, each with an index
\* entry, one of them trimmed below its own end, and shard_id has returned
\* the shard of the lowest hash key
C29_Witness ==
    /\ state_ = "READY"
    /\ open_shards_ # <<>>
    /\ NoHole
    /\ Len(end_hash_key_to_shard_id_) = MaxShards
    /\ \E i \in 1..Len(end_hash_key_to_shard_id_) :
           end_hash_key_to_shard_id_[i].first <
               ShardById(end_hash_key_to_shard_id_[i].second).end
    /\ ret.op = "shard_id" /\ ret.val # None

\* C30 as stated: with every shard id parseable, in every reachable state
\* UPDATING implies exactly one page request in flight, INVALID implies
\* exactly one scheduled retry pending, and a retry is pending only in
\* INVALID
C30_Progress ==
    /\ state_ = "UPDATING" => requests = 1
    /\ state_ = "INVALID" => (tasks = 1 /\ scheduled_callback_.pending)
    /\ (tasks > 0 \/ scheduled_callback_.pending) => state_ = "INVALID"

\* the page requests in flight together with the completion callback at
\* work on the outcome of one
InProgress == requests + (IF cb_pc = "idle" THEN 0 ELSE 1)

\* C30 amended: with every shard id parseable, in every reachable state
\* UPDATING implies that exactly one page request is in flight or being
\* handled by its completion callback (from the arrival of an outcome to
\* the callback's return, which waits for the locks, the state is UPDATING
\* with no request in flight), INVALID implies exactly one scheduled retry
\* pending and nothing in flight, and a retry is pending only in INVALID:
\* the retry fires in INVALID alone, where the index is empty, and never in
\* READY
C30_ProgressWithCallback ==
    /\ [](/\ state_ = "UPDATING" => InProgress = 1
          /\ state_ = "INVALID" =>
                 /\ tasks = 1 /\ scheduled_callback_.pending
                 /\ InProgress = 0
          /\ state_ = "READY" => InProgress = 0
          /\ (tasks > 0 \/ scheduled_callback_.pending) => state_ = "INVALID")
    /\ [][RetryFires =>
              /\ state_ = "INVALID"
              /\ end_hash_key_to_shard_id_ = <<>>
              /\ state_' = "UPDATING" /\ requests' = 1 /\ tasks' = 0]_vars

\* the last page of a retry's refresh has arrived and the reconciler has
\* run; the callback waits for the index lock, which a caller of invalidate
\* holds: the state is UPDATING and no request is in flight
C30_Witness ==
    /\ state_ = "UPDATING"
    /\ requests = 0
    /\ cb_pc = "commit_wait"
    /\ inv_pc = "locked"
    /\ scheduled_callback_.created
    /\ end_hash_key_to_shard_id_ # <<>>

\* C31: from the start of a refresh (update() sets UPDATING and clears the
\* index) until a refresh commits, every shard_id call returns absent.  The
\* state leaves READY only for UPDATING, with the index cleared in the same
\* step; it becomes READY again only by the commit of a refresh; and in
\* between, UPDATING or INVALID, shard_id returns absent for every key
C31_AbsentDuringRefresh ==
    [][/\ (state_ = "READY" /\ state_' # "READY") =>
              /\ state_' = "UPDATING"
              /\ end_hash_key_to_shard_id_' = <<>>
       /\ (state_ # "READY" /\ state_' = "READY") => Commit
       /\ \A k \in LookupKeys :
              (ShardIdCall(k) /\ state_ \in {"UPDATING", "INVALID"}) =>
                  ret'.val = None]_vars

\* a view was committed, a refresh started by an invalidate has failed, and
\* shard_id, which got the lock, has returned absent in state INVALID
C31_Witness ==
    /\ state_ = "INVALID"
    /\ DOMAIN shard_id_to_shard_cache_ # {}
    /\ updated_at_ > 0
    /\ cb_pc = "idle"
    /\ ret.op = "shard_id" /\ ret.locked /\ ret.val = None

\* C32: in state READY every shard id the index refers to has a cache
\* entry, under every interleaving of refreshes, invalidations and cleanup
\* passes: a sweep leaves the entries of the open set in place, and from the
\* cleanup thread's test of the state to the end of its sweep the state is
\* READY, no page is in flight or being handled, and the open set does not
\* change
C32_IndexIdsCached ==
    /\ [](state_ = "READY" =>
              \A id \in IndexIds : get_shard(id, shard_id_to_shard_cache_) # None)
    /\ [](jan_pc \in {"cache_wait", "sweep"} =>
              (state_ = "READY" /\ InProgress = 0))
    /\ [][/\ CleanupSweep =>
                 \A id \in open_shard_ids_ :
                     get_shard(id, shard_id_to_shard_cache_') =
                         get_shard(id, shard_id_to_shard_cache_)
          /\ jan_pc \in {"cache_wait", "sweep"} =>
                 UNCHANGED <<open_shard_ids_, open_shards_,
                             end_hash_key_to_shard_id_>>]_vars

\* the map is READY with the upper child alone in the index and in the
\* cache: a sweep has erased the parent, which get_shard had returned, and
\* cleared the flag
C32_Witness ==
    /\ state_ = "READY"
    /\ IndexIds = {3}
    /\ DOMAIN shard_id_to_shard_cache_ = {3}
    /\ ~shard_cache_needs_cleanup_
    /\ ret.op = "get_shard" /\ ret.arg = Some(1) /\ ret.val # None

\* the threads that take the two locks with a blocking call: the completion
\* context, the cleanup thread and a caller of invalidate (shard_id only
\* tries the index lock, get_shard holds nothing when it asks for the cache
\* lock)
Threads == {"cb", "jan", "inv"}

\* the lock thread t is blocked on, "none" when it is not blocked
WaitsOn(t) ==
    CASE t = "cb" /\ cb_pc \in {"fail_wait", "commit_wait"} -> "mutex_"
      [] t = "cb" /\ cb_pc = "cache_wait" -> "shard_cache_mutex_"
      [] t = "jan" /\ jan_pc = "lock_wait" -> "mutex_"
      [] t = "jan" /\ jan_pc = "cache_wait" -> "shard_cache_mutex_"
      [] OTHER -> "none"

\* thread t holds lock l
Holds(t, l) ==
    \/ l = "mutex_" /\ (mutex_.writer = t \/ t \in mutex_.readers)
    \/ l = "shard_cache_mutex_" /\ shard_cache_mutex_ = t

\* thread t is blocked on a lock that thread u holds
BlockedBy(t, u) == t # u /\ WaitsOn(t) # "none" /\ Holds(u, WaitsOn(t))

\* the threads t waits for, directly or through a chain of at most n waits
RECURSIVE WaitChain(_, _)
WaitChain(t, n) ==
    IF n = 0 THEN {}
    ELSE LET direct == {u \in Threads : BlockedBy(t, u)}
         IN  direct \cup UNION {WaitChain(u, n - 1) : u \in direct}

\* C33: no reachable state has threads waiting on each other in a cycle over
\* the index lock and the cache lock; the only thread that waits for a lock
\* while it holds one is the cleanup thread (index lock shared, then cache
\* lock), and the completion context holds no lock while it waits: the cache
\* lock is released before the commit asks for the index lock
C33_NoWaitCycle ==
    /\ \A t \in Threads : t \notin WaitChain(t, Cardinality(Threads))
    /\ \A t \in Threads : \A l \in {"mutex_", "shard_cache_mutex_"} :
           (WaitsOn(t) # "none" /\ Holds(t, l)) =>
               (t = "jan" /\ l = "mutex_" /\ WaitsOn(t) = "shard_cache_mutex_")
    /\ WaitsOn("cb") # "none" =>
           (~Holds("cb", "mutex_") /\ ~Holds("cb", "shard_cache_mutex_"))

\* the commit and the cleanup thread both wait for the index lock, which a
\* caller of invalidate holds
C33_Witness ==
    /\ cb_pc = "commit_wait"
    /\ jan_pc = "lock_wait"
    /\ mutex_.writer = "inv"
    /\ BlockedBy("cb", "inv") /\ BlockedBy("jan", "inv")

\* ------------------------------------------------------------ SpecEvict

\* time passes while the cleanup thread sleeps: a pass of the thread, from
\* the end of sleep_for to the start of the next, takes less than one period
TickAsleep ==
    /\ jan_pc = "sleep"
    /\ now < jan_wake
    /\ TickTo(JanTicks)

\* the cleanup thread with refreshes of one page each, invalidations at any
\* time and get_shard of the parent, the clock advancing between the passes
\* of the cleanup thread
NextEvict ==
    \/ TickAsleep
    \/ GetShardCall(1)
    \/ InvalidateLock
    \/ InvalidateBody(now, None)
    \/ RetryFires
    \/ (FailuresBelow(1) /\ ListShardsFailed)
    \/ UpdateFailLock
    \/ UpdateFail
    \/ \E page \in OnePages : ListShardsSucceeded(page, FALSE)
    \/ BuildReverse
    \/ BuildCacheLock
    \/ BuildCache
    \/ CommitLock
    \/ Commit
    \/ CleanupWake
    \/ CleanupLock
    \/ CleanupCacheLock
    \/ CleanupSweep

\* the cleanup thread runs and the clock advances; a thread that holds a lock
\* goes on to release it, and the locks are fair to the cleanup thread
EvictFairness ==
    /\ WF_vars(TickAsleep)
    /\ WF_vars(CleanupWake)
    /\ SF_vars(CleanupLock)
    /\ SF_vars(CleanupCacheLock)
    /\ WF_vars(CleanupSweep)
    /\ WF_vars(InvalidateBody(now, None))
    /\ WF_vars(UpdateFail)
    /\ WF_vars(BuildCache)
    /\ WF_vars(Commit)

SpecEvict == Init /\ [][NextEvict]_vars /\ EvictFairness

\* the clock has room for the ttl and one more pass of the cleanup thread
\* after the last refresh
RoomToEvict == updated_at_ + closed_shard_ttl_ + CleanupPeriod <= JanTicks * CleanupPeriod

\* C34: when a refresh with a non-empty listing has dropped shard x from the
\* open set and the map is READY, x is eventually erased from the cache
\* unless a further refresh starts; the flag is cleared only by a sweep in
\* state READY with no refresh under way, which leaves no entry outside the
\* open set, and no refresh sets the flag or changes the open set between
\* the cleanup thread's test and the end of its sweep
C34_EvictionLiveness ==
    /\ \A x \in {c.id : c \in Catalog} :
           (/\ state_ = "READY"
            /\ open_shards_ # <<>>
            /\ x \in Stale
            /\ RoomToEvict)
               ~> (x \notin DOMAIN shard_id_to_shard_cache_ \/ state_ # "READY")
    /\ [][/\ (shard_cache_needs_cleanup_ /\ ~shard_cache_needs_cleanup_') =>
                 /\ CleanupSweep
                 /\ state_ = "READY" /\ InProgress = 0
                 /\ DOMAIN shard_id_to_shard_cache_' \subseteq open_shard_ids_
          /\ jan_pc \in {"cache_wait", "sweep"} =>
                 /\ ~BuildCache
                 /\ open_shard_ids_' = open_shard_ids_
                 /\ shard_cache_needs_cleanup_]_vars

\* the parent, dropped by a refresh that listed the upper child, has been
\* erased by a sweep: the flag is cleared and the child alone is cached, two
\* periods and more after the refresh
C34_Witness ==
    /\ state_ = "READY"
    /\ open_shard_ids_ = {3}
    /\ DOMAIN shard_id_to_shard_cache_ = {3}
    /\ ~shard_cache_needs_cleanup_
    /\ updated_at_ > 0
    /\ now > updated_at_ + closed_shard_ttl_
    /\ jan_pc = "sleep"

\* ------------------------------------------------------------ SpecOrder

\* a listing of five shards with five different ranges: four that start at
\* hash key 0 and one that covers the rest of the widest
Nested == {Shard(1, 0, 0), Shard(2, 0, 1), Shard(3, 0, 2), Shard(4, 0, 3),
           Shard(5, 1, 3)}

\* a page of one shard of the listing not yet listed: the shards arrive in
\* every order
NestedPages == {<<s>> : s \in Nested \ Range(open_shards_)}

\* one refresh that lists the shards in any order over any pages, and a
\* lookup of hash key 0
NextOrder ==
    \/ \E page \in NestedPages, more \in BOOLEAN : ListShardsSucceeded(page, more)
    \/ BuildReverse
    \/ BuildCacheLock
    \/ BuildCache
    \/ CommitLock
    \/ Commit
    \/ (state_ = "READY" /\ ShardIdCall(0))

SpecOrder == Init /\ [][NextOrder]_vars

\* the orders in which the shards of listing s can arrive
Orders(s) ==
    {[i \in 1..Len(s) |-> s[p[i]]] :
        p \in {q \in [1..Len(s) -> 1..Len(s)] :
                  \A i, j \in 1..Len(s) : i # j => q[i] # q[j]}}

\* no two shards of listing s have the same range
DistinctRanges(s) ==
    \A i, j \in 1..Len(s) :
        i # j => <<s[i].start, s[i].end>> # <<s[j].start, s[j].end>>

\* C35: for a listing no two shards of which have the same range, the index
\* the refresh commits is the index of every other order of arrival of the
\* same shards
C35_OrderIndependent ==
    (state_ = "READY" /\ DistinctRanges(open_shards_)) =>
        \A s \in Orders(open_shards_) :
            build_index(s, <<>>) = end_hash_key_to_shard_id_

\* ------------------------------------------------- the reconciler's steps

\* one iteration of the while loop: the shard popped, the watermark it met,
\* what was done with it and the end it has afterwards
Step(act, shard, last_starting_hashkey, end) ==
    [act |-> act, shard |-> shard, watermark |-> last_starting_hashkey, end |-> end]

\* the loop gone wrong: a shard that is not emitted is trimmed and pushed
\* back without the test shard.start < last_starting_hashkey
RECURSIVE reconcile_trace_no_start_test(_, _, _)
reconcile_trace_no_start_test(max_heap, last_starting_hashkey, fuel) ==
    IF max_heap = <<>> THEN <<>>
    ELSE LET shard == max_heap[1]
             rest  == heap_pop(max_heap)
             end   == (last_starting_hashkey - 1 + HashMod) % HashMod
         IN  IF fuel = 0
             THEN <<Step("running", shard, last_starting_hashkey, shard.end)>>
             ELSE IF shard.end < last_starting_hashkey
             THEN <<Step("emit", shard, last_starting_hashkey, shard.end)>> \o
                  reconcile_trace_no_start_test(rest, shard.start, fuel - 1)
             ELSE <<Step("trim", shard, last_starting_hashkey, end)>> \o
                  reconcile_trace_no_start_test(
                      heap_push(rest, [shard EXCEPT !.end = end]),
                      last_starting_hashkey, fuel - 1)

\* the iterations of the while loop of build_minimal_disjoint_hashranges, in
\* order, at most fuel of them: a last step "running" says the loop has not
\* ended by then
RECURSIVE reconcile_trace(_, _, _)
reconcile_trace(max_heap, last_starting_hashkey, fuel) ==
    IF max_heap = <<>> THEN <<>>
    ELSE LET shard == max_heap[1]
             rest  == heap_pop(max_heap)
             end   == (last_starting_hashkey - 1 + HashMod) % HashMod
         IN  IF fuel = 0
             THEN <<Step("running", shard, last_starting_hashkey, shard.end)>>
             ELSE IF shard.end < last_starting_hashkey
             THEN <<Step("emit", shard, last_starting_hashkey, shard.end)>> \o
                  reconcile_trace(rest, shard.start, fuel - 1)
             ELSE IF shard.start < last_starting_hashkey
                  THEN <<Step("trim", shard, last_starting_hashkey, end)>> \o
                       reconcile_trace(heap_push(rest, [shard EXCEPT !.end = end]),
                                       last_starting_hashkey, fuel - 1)
                  ELSE <<Step("drop", shard, last_starting_hashkey, shard.end)>> \o
                       reconcile_trace(rest, last_starting_hashkey, fuel - 1)

\* the number of hash keys in the ranges of the shards, plus the shards: no
\* run of the loop in which every push lowers an end and keeps it at or above
\* the start has more iterations
RECURSIVE StepBound(_)
StepBound(shards) ==
    IF shards = <<>> THEN 0
    ELSE 1 + (Head(shards).end - Head(shards).start) + StepBound(Tail(shards))

\* the iterations of the loop over the shards listed so far
Trace == reconcile_trace(heap_of(open_shards_, <<>>), InitialWatermark,
                         StepBound(open_shards_))

\* the index the emitting steps of a trace leave, before the reversal
RECURSIVE Emitted(_)
Emitted(tr) ==
    IF tr = <<>> THEN <<>>
    ELSE IF Head(tr).act = "emit"
         THEN <<[first |-> Head(tr).end, second |-> Head(tr).shard.id]>> \o
              Emitted(Tail(tr))
         ELSE Emitted(Tail(tr))

\* C36: when the loop has run over a listing of shards with start <= end, it
\* has ended, within StepBound iterations; every re-insertion lowered the
\* shard's end and kept it at or above the start; last_starting_hashkey - 1
\* was computed only with last_starting_hashkey > 0; every shard was emitted
\* at most once; and the emitted entries are the entries the loop left in
\* the index
C36_ReconcilerTerminates ==
    cb_pc = "reverse" =>
        LET tr == Trace IN
        /\ \A i \in 1..Len(tr) : tr[i].act # "running"
        /\ \A i \in 1..Len(tr) :
               tr[i].act = "trim" =>
                   /\ tr[i].watermark > 0
                   /\ tr[i].end = tr[i].watermark - 1
                   /\ tr[i].end < tr[i].shard.end
                   /\ tr[i].end >= tr[i].shard.start
        /\ \A i, j \in 1..Len(tr) :
               (tr[i].act = "emit" /\ tr[j].act = "emit" /\ i # j) =>
                   tr[i].shard.id # tr[j].shard.id
        /\ Emitted(tr) = end_hash_key_to_shard_id_

\* the loop has run over a listing on which it trimmed one shard twice and,
\* with the watermark at 0, dropped a shard without computing the
\* watermark - 1
C36_Witness ==
    /\ cb_pc = "reverse"
    /\ Emitted(Trace) = end_hash_key_to_shard_id_
    /\ \E i, j \in 1..Len(Trace) :
           /\ i < j
           /\ Trace[i].act = "trim" /\ Trace[j].act = "trim"
           /\ Trace[i].shard.id = Trace[j].shard.id
    /\ \E i \in 1..Len(Trace) : Trace[i].act = "drop" /\ Trace[i].watermark = 0

====
